---- MODULE Spec2Model ----
(***************************************************************************)
(* VIPER: the agent-response execution engine.                             *)
(*                                                                         *)
(*   - ContextManager.manage and its compression cascade                   *)
(*     (src/modules/context_manager.py, src/modules/token_manager.py)      *)
(*   - the tool gateway, the plan executor and stream_response             *)
(*     (src/modules/conversation_manager.py, src/modules/tool_manager.py)  *)
(***************************************************************************)
EXTENDS Integers, Sequences, FiniteSets, TLC

(***************************************************************************)
(* Bounds of the model.                                                    *)
(***************************************************************************)
\* longest message list handed to manage in SpecCtx
MaxLen == 16
\* most messages of one conversation that are long
MaxLarge == 2

(***************************************************************************)
(* Program constants.                                                      *)
(***************************************************************************)
\* CLIENT_CONFIG["token_window_size"]
token_window == 4096
\* CONTEXT_CONFIG["compression_threshold"] = 0.8, as a percentage
compression_threshold_pct == 80
\* CONTEXT_CONFIG["historical_messages_to_load"]
recent_messages_to_keep == 10
\* "if summarization_tokens > (self.token_window * 0.9)", as a percentage
summarization_limit_pct == 90
\* "if compressed_tokens > (self.token_window * 0.95)", as a percentage
final_limit_pct == 95
\* "num_tokens += 4" for every message
message_overhead == 4
\* "num_tokens += 2", every reply is primed
reply_priming == 2
\* the role string of a message is one token
role_tokens == 1
\* tokens of the fixed text of the summarization prompt
summary_prompt_tokens == 60
\* tokens json.dumps(..., indent=2) adds around one message (braces, keys)
json_frame_tokens == 12
\* tokens of the prefix "Summary of earlier conversation: "
summary_prefix_tokens == 6
\* tokens of the truncation note of _aggressive_compress
truncation_note_tokens == 40
\* tokens of the system prompt of the modelled conversations
system_prompt_tokens == 20

\* content sizes (in tokens) of the messages of a conversation: short ones,
\* and long ones (a pasted file, a tool result)
ShortTokens == {20}
LargeTokens == {1700, 4200}
\* content sizes (in tokens) of the summary the model may return
SummaryTokens == {30, 700}

(***************************************************************************)
(* Messages.  A message is its role and its content; the content is kept   *)
(* as a kind, a reference that tells contents of one kind apart, and the   *)
(* number of tokens count_tokens gives for it.                             *)
(***************************************************************************)
SystemPrompt == [role |-> "system", kind |-> "prompt", ref |-> 0, tok |-> system_prompt_tokens]

Max(a, b) == IF a >= b THEN a ELSE b

\* Python's messages[-k:]  (k = 0 gives the whole list, as -0 is 0)
LastN(s, k) ==
    IF k = 0 \/ k >= Len(s) THEN s ELSE SubSeq(s, Len(s) - k + 1, Len(s))

\* Python's messages[1:-k]  (k = 0 gives messages[1:0], the empty list)
Middle(s, k) ==
    IF k = 0 THEN << >> ELSE SubSeq(s, 2, Len(s) - k)

RECURSIVE SumTok(_)
SumTok(s) ==
    IF s = << >> THEN 0
    ELSE message_overhead + role_tokens + s[1].tok + SumTok(Tail(s))

\* TokenManager.get_conversation_token_count
get_conversation_token_count(messages) == SumTok(messages) + reply_priming

RECURSIVE JsonTok(_)
JsonTok(s) ==
    IF s = << >> THEN 0
    ELSE json_frame_tokens + role_tokens + s[1].tok + JsonTok(Tail(s))

\* the one-message summarization request built by _compress_context
summarization_tokens(messages_to_summarize) ==
    message_overhead + role_tokens + summary_prompt_tokens
        + JsonTok(messages_to_summarize) + reply_priming

\* "aggressive_recent_keep = max(3, self.recent_messages_to_keep // 3)"
aggressive_recent_keep == Max(3, recent_messages_to_keep \div 3)

truncation_note(dropped) ==
    [role |-> "system", kind |-> "notice", ref |-> dropped, tok |-> truncation_note_tokens]

summarized_message(summary) ==
    [role |-> "system", kind |-> "summary", ref |-> summary, tok |-> summary_prefix_tokens + summary]

\* variant of _aggressive_compress that keeps recent_messages_to_keep messages
aggressive_compress_mut(messages) ==
    IF Len(messages) <= recent_messages_to_keep + 1 THEN messages
    ELSE << messages[1], truncation_note(Len(messages) - recent_messages_to_keep - 1) >>
            \o LastN(messages, recent_messages_to_keep)

\* ContextManager._aggressive_compress
aggressive_compress(messages) ==
    IF Len(messages) <= aggressive_recent_keep + 1 THEN messages
    ELSE << messages[1], truncation_note(Len(messages) - aggressive_recent_keep - 1) >>
            \o LastN(messages, aggressive_recent_keep)

\* variant of the fallback that keeps recent_messages_to_keep messages only
summarize_failed_mut(messages) ==
    << messages[1] >> \o LastN(messages, recent_messages_to_keep)

\* the fallback of _compress_context when the summarization call raises
summarize_failed(messages) ==
    << messages[1] >> \o LastN(messages, recent_messages_to_keep + 4)

\* The replies the summarization call can give: it raises, or it returns a
\* summary of some size.
\* what is recorded for a manage call that did not ask for a summary
NoReply == [raises |-> FALSE, summary |-> 0]
Replies == [raises : {TRUE}, summary : {0}] \cup [raises : {FALSE}, summary : SummaryTokens]

\* variant of _compress_context whose summarized list starts with the summary
compress_context_mut(messages, reply) ==
    IF Len(messages) < recent_messages_to_keep + 2
    THEN [out |-> messages, calls |-> 0, path |-> "short", raised |-> FALSE]
    ELSE IF summarization_tokens(Middle(messages, recent_messages_to_keep)) * 100
                > token_window * summarization_limit_pct
    THEN [out |-> aggressive_compress(messages), calls |-> 0, path |-> "too_large", raised |-> FALSE]
    ELSE IF reply.raises
    THEN [out |-> summarize_failed(messages), calls |-> 1, path |-> "failed", raised |-> FALSE]
    ELSE [out |-> << summarized_message(reply.summary) >> \o LastN(messages, recent_messages_to_keep),
          calls |-> 1, path |-> "summarized", raised |-> FALSE]

\* ContextManager._compress_context; reply is what the summarization call
\* does if it is made.  out: the returned list, calls: the model calls made,
\* path: the return statement taken, raised: an exception left the method
\* ("except Exception" catches whatever the call raises).
compress_context(messages, reply) ==
    IF Len(messages) < recent_messages_to_keep + 2
    THEN [out |-> messages, calls |-> 0, path |-> "short", raised |-> FALSE]
    ELSE LET system_prompt == messages[1]
             recent_messages == LastN(messages, recent_messages_to_keep)
             messages_to_summarize == Middle(messages, recent_messages_to_keep)
         IN  IF messages_to_summarize = << >>
             THEN [out |-> messages, calls |-> 0, path |-> "short", raised |-> FALSE]
             ELSE IF summarization_tokens(messages_to_summarize) * 100
                         > token_window * summarization_limit_pct
             THEN [out |-> aggressive_compress(messages), calls |-> 0,
                   path |-> "too_large", raised |-> FALSE]
             ELSE IF reply.raises
             THEN [out |-> summarize_failed(messages), calls |-> 1,
                   path |-> "failed", raised |-> FALSE]
             ELSE [out |-> << system_prompt, summarized_message(reply.summary) >> \o recent_messages,
                   calls |-> 1, path |-> "summarized", raised |-> FALSE]

\* variant of manage that compresses whatever the list costs
manage_mut(messages, reply) ==
    LET c == compress_context(messages, reply)
    IN  IF get_conversation_token_count(c.out) * 100 > token_window * final_limit_pct
        THEN [out |-> aggressive_compress(c.out), calls |-> c.calls, path |-> c.path,
              again |-> TRUE, raised |-> c.raised]
        ELSE [out |-> c.out, calls |-> c.calls, path |-> c.path, again |-> FALSE,
              raised |-> c.raised]

\* ContextManager.manage; again: whether the post-compression check sent the
\* compressed list through _aggressive_compress.
manage(messages, reply) ==
    IF get_conversation_token_count(messages) * 100 > token_window * compression_threshold_pct
    THEN LET c == compress_context(messages, reply)
         IN  IF get_conversation_token_count(c.out) * 100 > token_window * final_limit_pct
             THEN [out |-> aggressive_compress(c.out), calls |-> c.calls, path |-> c.path,
                   again |-> TRUE, raised |-> c.raised]
             ELSE [out |-> c.out, calls |-> c.calls, path |-> c.path, again |-> FALSE,
                   raised |-> c.raised]
    ELSE [out |-> messages, calls |-> 0, path |-> "under", again |-> FALSE, raised |-> FALSE]

(***************************************************************************)
(* The tool registry (ToolManager.tools and ToolManager.tool_specs).       *)
(***************************************************************************)
\* the tools _load_tools registered
Tools == {"FILE_EXPLORER", "FILE_MANAGER", "AGENTS"}

\* the methods a tool's get_tool_spec declares
DeclaredMethods(tool_name) ==
    CASE tool_name = "FILE_EXPLORER" -> {"read_file"}
      [] tool_name = "FILE_MANAGER" -> {"delete"}
      [] tool_name = "AGENTS" -> {"invoke_agent"}
      [] OTHER -> {}

\* the destruct_flag a tool's specification declares for a method
destruct_flag(tool_name, method) == tool_name = "FILE_MANAGER" /\ method = "delete"

\* the callable attributes of a tool object: the declared methods, and
\* get_tool_spec itself
CallableAttributes(tool_name) ==
    IF tool_name \in Tools THEN DeclaredMethods(tool_name) \cup {"get_tool_spec"} ELSE {}

\* ToolManager._get_method_spec
get_method_spec(tool_name, method) ==
    IF tool_name \in Tools /\ method \in DeclaredMethods(tool_name)
    THEN [found |-> TRUE, destruct_flag |-> destruct_flag(tool_name, method)]
    ELSE [found |-> FALSE, destruct_flag |-> FALSE]

\* A tool call or plan step names its function as TOOL__method (has_sep: the
\* name contains "__") and carries its arguments as JSON text (args_ok: the
\* text parses).
Call(has_sep, tool_name, method, args_ok) ==
    [has_sep |-> has_sep, tool_name |-> tool_name, method |-> method, args_ok |-> args_ok]

ReadCall == Call(TRUE, "FILE_EXPLORER", "read_file", TRUE)
DeleteCall == Call(TRUE, "FILE_MANAGER", "delete", TRUE)
ToolCalls ==
    { ReadCall, DeleteCall,
      Call(TRUE, "NO_SUCH_TOOL", "read_file", TRUE),
      Call(TRUE, "FILE_EXPLORER", "no_such_method", TRUE),
      Call(TRUE, "FILE_MANAGER", "get_tool_spec", TRUE),
      Call(FALSE, "", "", TRUE),
      Call(TRUE, "FILE_EXPLORER", "read_file", FALSE) }

\* what a tool method does when it is called
Outcomes == {"ok", "fails", "raises"}

\* variant of execute_tool_method that looks nothing up in the registry
execute_tool_method_mut(tool_name, method, outcome) ==
    CASE outcome = "ok" -> [success |-> TRUE, error |-> "", invoked |-> TRUE]
      [] outcome = "fails" -> [success |-> FALSE, error |-> "tool error", invoked |-> TRUE]
      [] OTHER -> [success |-> FALSE, error |-> "Execution error", invoked |-> TRUE]

\* ToolManager.execute_tool_method.  invoked: the tool's method was called.
execute_tool_method(tool_name, method, outcome) ==
    IF tool_name \notin Tools
    THEN [success |-> FALSE, error |-> "not found", invoked |-> FALSE]
    ELSE IF method \notin CallableAttributes(tool_name)
    THEN [success |-> FALSE, error |-> "not found", invoked |-> FALSE]
    ELSE CASE outcome = "ok" -> [success |-> TRUE, error |-> "", invoked |-> TRUE]
           [] outcome = "fails" -> [success |-> FALSE, error |-> "tool error", invoked |-> TRUE]
           [] OTHER -> [success |-> FALSE, error |-> "Execution error", invoked |-> TRUE]

\* variant of the confirmation test that reads the destructive flag only
needs_confirmation_mut(is_destructive, config) ==
    ~config.auto_execute_destructive

\* "needs_confirmation = (is_destructive and not auto_execute_destructive) or
\*  (not is_destructive and not auto_execute_non_destructive)"
needs_confirmation(is_destructive, config) ==
    \/ is_destructive /\ ~config.auto_execute_destructive
    \/ ~is_destructive /\ ~config.auto_execute_non_destructive

\* ConversationManager._execute_openrouter_tool_call.  answer: what the
\* operator says if asked; outcome: what the tool method does if called.
\* asked: Confirm.ask was called; invoked: the tool's method was called.
execute_openrouter_tool_call(tool_call, config, answer, outcome) ==
    IF ~tool_call.has_sep
    THEN [success |-> FALSE, error |-> "Invalid function name format",
          asked |-> FALSE, invoked |-> FALSE, is_destructive |-> FALSE]
    ELSE IF ~tool_call.args_ok
    THEN [success |-> FALSE, error |-> "Tool execution failed",
          asked |-> FALSE, invoked |-> FALSE, is_destructive |-> FALSE]
    ELSE LET method_spec == get_method_spec(tool_call.tool_name, tool_call.method)
             is_destructive == IF method_spec.found THEN method_spec.destruct_flag ELSE FALSE
             asked == needs_confirmation(is_destructive, config)
         IN  IF asked /\ ~answer
             THEN [success |-> FALSE, error |-> "Tool execution cancelled by user",
                   asked |-> TRUE, invoked |-> FALSE, is_destructive |-> is_destructive]
             ELSE LET r == execute_tool_method(tool_call.tool_name, tool_call.method, outcome)
                  IN  [success |-> r.success, error |-> r.error,
                       asked |-> asked, invoked |-> r.invoked, is_destructive |-> is_destructive]

(***************************************************************************)
(* State.                                                                  *)
(***************************************************************************)
VARIABLES
    ctx_messages,   \* SpecCtx: the message list the next manage call is given
    ctx_runs,       \* SpecCtx: the manage calls made so far: argument, reply, result
    TOOL_CONFIG,    \* the execution policy
    messages,       \* conversation["messages"] of the conversation in use
    saved,          \* the messages save_conversations last wrote to the file
    pc,             \* where the turn stands: idle, model, tools, ...
    retry_count,    \* retry_count of the stream_response call in progress
    model_calls,    \* completion calls stream_response made in this turn
    turns,          \* top-level stream_response calls so far
    tool_calls,     \* len(tool_calls) of the tool batch being executed (0: none);
                    \* a call of the batch is drawn when the loop reaches it,
                    \* as nothing reads it before
    all_results,    \* all_results of the batch being executed: the "success" of
                    \* each result (the last result stands whole in last_call)
    last_call,      \* the last call through the gateway: call, answer, result
    continuations,  \* recursive calls with a fresh retry counter in this turn
    plan_exec,      \* the locals of _execute_plan while a plan runs
    plan_result,    \* what _execute_plan returned, once it has
    last_step,      \* the step of the last pass of the executor's loop: whether
                    \* the operator was asked and whether the method was invoked
    last_reevaluation,  \* the last reevaluation reply and what the operator said to it
    raw_response,   \* SpecNorm: the text the model streamed, as a list of tokens
    intent,         \* SpecNorm: what preprocess_primary_agent_response made of it
    dispatched,     \* SpecNorm: the executor stream_response handed the intent to
    agent           \* SpecAgent: the locals of invoke_agent and what its last round ran

ctx_vars == << ctx_messages, ctx_runs >>
norm_vars == << raw_response, intent, dispatched >>
agent_vars == << agent >>
turn_vars == << TOOL_CONFIG, messages, saved, pc, retry_count, model_calls, turns,
                tool_calls, all_results, last_call, continuations,
                plan_exec, plan_result, last_step, last_reevaluation >>
vars == << ctx_messages, ctx_runs, TOOL_CONFIG, messages, saved, pc, retry_count, model_calls,
           turns, tool_calls, all_results, last_call, continuations,
           plan_exec, plan_result, last_step, last_reevaluation,
           raw_response, intent, dispatched, agent >>

\* more bounds of the model
\* longest conversation the operator still sends a message to
MaxHistory == 3
\* calls in one tool batch
MaxBatch == 2
\* continuations ("Please provide your response ...") of one turn
MaxContinuations == 1

\* "max_retries: int = 3"
max_retries == 3

\* tokens of the messages the orchestrator writes itself
note_tokens == 20

Message(role, kind, ref) == [role |-> role, kind |-> kind, ref |-> ref, tok |-> note_tokens]

\* steps of a plan the model sends
MaxSteps == 3
\* steps of a replacement plan
MaxNewSteps == 2
\* replacement plans accepted during one plan execution
MaxReplacements == 1

\* the policies the operator can have set (commands.py toggles each flag)
Policies == [tools_enabled : BOOLEAN, auto_execute_non_destructive : BOOLEAN,
             auto_execute_destructive : BOOLEAN]

\* what a step of a plan can name: a tool name with or without "__",
\* arguments that parse or do not
StepCalls == { ReadCall, DeleteCall, Call(FALSE, "", "", TRUE),
               Call(TRUE, "FILE_EXPLORER", "read_file", FALSE) }

\* a plan of n steps; the "tool" and "arguments" of a step are drawn when
\* the loop of _execute_plan reaches the step, as nothing reads them before
Plan(name, n) ==
    [name |-> name, steps |-> [i \in 1..n |-> [step_number |-> i]]]

\* the plans a model response can carry ("steps" may be an empty list)
Plans == { Plan("plan", n) : n \in 0..MaxSteps }

\* the replacement plans a reevaluation reply can carry
NewPlans == { Plan("new plan", n) : n \in 0..MaxNewSteps }

\* _execute_plan not running.  Besides the locals of _execute_plan:
\* confirmed: the operator said yes to "Execute this plan?"; failed: the
\* reevaluation in progress was asked for after a failed step; replaced:
\* the replacement plans accepted; restarted_with: the recovery plan
\* execution was last restarted with, if no other replacement followed;
\* steps_done: the steps of the list now in "steps" that ran and succeeded;
\* invoked_steps: the values of step_index at which execute_tool_method was
\* called, in the order of the calls; reevaluations: the calls of
\* _reevaluate_plan made after a successful and after a failed step.
NoPlan == [plan_name |-> "", steps |-> << >>, step_index |-> 0, results |-> << >>,
           successful_steps |-> 0, allow_reevaluation |-> FALSE, confirmed |-> FALSE,
           failed |-> FALSE, replaced |-> 0, restarted_with |-> << >>, steps_done |-> 0,
           invoked_steps |-> << >>,
           reevaluations |-> [after_success |-> 0, after_failure |-> 0]]

\* "current_plan = updated_plan ... step_index += 1": the replacement a
\* reevaluation after a successful step brings
replace_plan(ex, updated_plan) ==
    [ex EXCEPT !.steps = updated_plan.steps,
               !.plan_name = updated_plan.name,
               !.step_index = @ + 1,
               !.replaced = @ + 1,
               !.restarted_with = << >>,
               !.steps_done = 0]

\* variant of the restart that keeps the results collected so far
restart_plan_mut(ex, updated_plan) ==
    [ex EXCEPT !.steps = updated_plan.steps,
               !.plan_name = updated_plan.name,
               !.step_index = 0,
               !.replaced = @ + 1,
               !.restarted_with = << updated_plan >>,
               !.steps_done = 0]

\* "step_index = 0  # Restart with recovery plan": the replacement a
\* reevaluation after a failed step brings
restart_plan(ex, updated_plan) ==
    [ex EXCEPT !.steps = updated_plan.steps,
               !.plan_name = updated_plan.name,
               !.step_index = 0,
               !.results = << >>,
               !.successful_steps = 0,
               !.replaced = @ + 1,
               !.restarted_with = << updated_plan >>,
               !.steps_done = 0]

\* variant of the retry test that allows one more attempt
may_retry_mut(retry) == retry <= max_retries

\* "if retry_count < max_retries"
may_retry(retry) == retry < max_retries

\* the lengths of the tool batches a model response can carry
BatchSizes == 1..MaxBatch

(***************************************************************************)
(* SpecCtx: manage applied to bounded conversations, twice in succession.  *)
(***************************************************************************)
UserMessage(i, t) == [role |-> IF i % 2 = 0 THEN "user" ELSE "assistant", kind |-> "msg", ref |-> i, tok |-> t]

\* the size of every message after the system prompt, for a conversation of
\* n + 1 messages
ContentSizes(n) ==
    UNION { { [i \in 1..n |-> IF i \in P THEN g[i] ELSE t] : g \in [P -> LargeTokens], t \in ShortTokens }
            : P \in { Q \in SUBSET (1..n) : Cardinality(Q) <= MaxLarge } }

Conversations ==
    UNION { { << SystemPrompt >> \o [i \in 1..n |-> UserMessage(i + 1, f[i])] : f \in ContentSizes(n) }
            : n \in 0..(MaxLen - 1) }

\* the state of a ConversationManager after construction, no turn started
TurnIdle ==
    /\ TOOL_CONFIG \in Policies
    /\ messages = << SystemPrompt >>
    /\ saved = << SystemPrompt >>
    /\ pc = "idle"
    /\ retry_count = 0
    /\ model_calls = 0
    /\ turns = 0
    /\ tool_calls = 0
    /\ all_results = << >>
    /\ last_call = << >>
    /\ continuations = 0
    /\ plan_exec = NoPlan
    /\ plan_result = << >>
    /\ last_step = << >>
    /\ last_reevaluation = << >>

\* no response has been preprocessed
NormIdle == raw_response = << >> /\ intent = << >> /\ dispatched = ""

\* invoke_agent not running.  tools: the "tools" parameter went with the
\* completion calls; executed: the tool calls of the last round, each with
\* what _execute_tool_call did; result: what invoke_agent returned
NoAgent == [pc |-> "idle", tools |-> FALSE, tool_call_count |-> 0, executed |-> << >>,
            result |-> << >>]

AgentIdle == agent = NoAgent

InitCtx ==
    /\ ctx_messages \in Conversations
    /\ ctx_runs = << >>
    /\ TurnIdle
    /\ NormIdle
    /\ AgentIdle
    /\ TOOL_CONFIG = [tools_enabled |-> TRUE, auto_execute_non_destructive |-> TRUE,
                      auto_execute_destructive |-> FALSE]

\* one call of manage; the caller hands the result to the next call
Manage(reply) ==
    /\ Len(ctx_runs) < 2
    /\ LET r == manage(ctx_messages, reply)
       IN  /\ ctx_runs' = Append(ctx_runs, [arg |-> ctx_messages,
                                             reply |-> IF r.calls = 0 THEN NoReply ELSE reply,
                                             res |-> r])
           /\ ctx_messages' = r.out
    /\ UNCHANGED << turn_vars, norm_vars, agent_vars >>

NextCtx == \E reply \in Replies : Manage(reply)

SpecCtx == InitCtx /\ [][NextCtx]_vars

(***************************************************************************)
(* Spec: one conversation, driven by stream_response.                      *)
(***************************************************************************)
Init ==
    /\ ctx_messages = << >>
    /\ ctx_runs = << >>
    /\ TurnIdle
    /\ NormIdle
    /\ AgentIdle

\* stream_response up to its completion call: the user message is added,
\* manage's result is written back and the model is called
\* ("self.add_message(conv_id, "user", ...)" ... "self.client.chat.completions.create")
CallModel(base, user_message, retry) ==
    /\ \E reply \in Replies : messages' = manage(Append(base, user_message), reply).out
    /\ saved' = Append(base, user_message)
    /\ retry_count' = retry
    /\ model_calls' = model_calls + 1
    /\ pc' = "model"

\* the last lines of stream_response: the response is saved as the
\* assistant's message and returned (ref: the completion call of the turn
\* whose response it is, here the call of this frame, the last one made)
SaveResponse(base) ==
    /\ messages' = Append(base, Message("assistant", "response", model_calls))
    /\ saved' = Append(base, Message("assistant", "response", model_calls))
    /\ pc' = "idle"
    /\ UNCHANGED << retry_count, model_calls >>

\* variant of the continuation that hands its own retry counter on
ContinueTurn_mut(base, kind) ==
    /\ CallModel(Append(base, Message("system", kind, 0)), Message("user", "continue", 0),
                 retry_count)
    /\ continuations' = continuations + 1

\* the results are added as a system message and stream_response calls
\* itself with "Please provide your response based on the ... results."
\* and retry_count=0
ContinueTurn(base, kind) ==
    /\ CallModel(Append(base, Message("system", kind, 0)), Message("user", "continue", 0), 0)
    /\ continuations' = continuations + 1

\* a top-level stream_response call with a message of the operator
BeginTurn(tokens) ==
    /\ pc \in {"idle", "swallowed"}
    /\ turns' = turns + 1
    /\ \E reply \in Replies :
            messages' = manage(Append(messages, [role |-> "user", kind |-> "msg",
                                                 ref |-> turns + 1, tok |-> tokens]), reply).out
    /\ saved' = Append(messages, [role |-> "user", kind |-> "msg", ref |-> turns + 1, tok |-> tokens])
    /\ retry_count' = 0
    /\ model_calls' = 1
    /\ pc' = "model"
    /\ continuations' = 0
    /\ tool_calls' = 0
    /\ all_results' = << >>
    /\ last_call' = << >>
    /\ plan_exec' = NoPlan
    /\ plan_result' = << >>
    /\ last_step' = << >>
    /\ last_reevaluation' = << >>
    /\ UNCHANGED << ctx_vars, norm_vars, agent_vars, TOOL_CONFIG >>

\* the operator sends a (short) message
StartTurn(tokens) ==
    /\ Len(messages) <= MaxHistory
    /\ BeginTurn(tokens)

\* the model's (preprocessed) responses: plain text, a tool batch, a plan
PlainResponses == [kind : {"plain"}]
BatchResponses == [kind : {"tool_calls"}, tool_calls : BatchSizes]
PlanResponses == [kind : {"plan"}, plan : Plans]

\* the streamed response is complete and stream_response dispatches on it
ModelResponds(response) ==
    /\ pc = "model"
    /\ response.kind = "plan" => model_calls = 1
    /\ IF response.kind = "plain" \/ ~TOOL_CONFIG.tools_enabled
       THEN /\ SaveResponse(messages)
            /\ UNCHANGED << tool_calls, all_results, last_call, plan_exec, plan_result,
                            last_step, last_reevaluation >>
       ELSE IF response.kind = "plan"
       THEN \* _execute_plan renders the plan and asks "Execute this plan?"
            /\ plan_exec' = [NoPlan EXCEPT !.plan_name = response.plan.name,
                                           !.steps = response.plan.steps,
                                           !.allow_reevaluation = TRUE]
            /\ plan_result' = << >>
            /\ last_step' = << >>
            /\ last_reevaluation' = << >>
            /\ pc' = "plan_confirm"
            /\ tool_calls' = 0
            /\ all_results' = << >>
            /\ last_call' = << >>
            /\ UNCHANGED << messages, saved, retry_count, model_calls >>
       ELSE /\ tool_calls' = response.tool_calls
            /\ all_results' = << >>
            /\ last_call' = << >>
            /\ pc' = "tools"
            /\ plan_exec' = NoPlan
            /\ plan_result' = << >>
            /\ last_step' = << >>
            /\ last_reevaluation' = << >>
            /\ UNCHANGED << messages, saved, retry_count, model_calls >>
    /\ UNCHANGED << ctx_vars, norm_vars, agent_vars, TOOL_CONFIG, turns, continuations >>

\* the next call of the batch, tool_call, goes through the gateway; after
\* the last one stream_response looks at all_results
ExecuteToolCall(tool_call, answer, outcome) ==
    /\ pc = "tools"
    /\ LET result == execute_openrouter_tool_call(tool_call, TOOL_CONFIG, answer, outcome)
           results == Append(all_results, [success |-> result.success])
           all_success == \A i \in 1..Len(results) : results[i].success
       IN  /\ last_call' = << [tool_call |-> tool_call,
                               answer |-> IF result.asked THEN answer ELSE FALSE,
                               result |-> result] >>
           /\ IF Len(results) < tool_calls
              THEN /\ all_results' = results
                   /\ UNCHANGED << messages, saved, pc, retry_count, model_calls, continuations, tool_calls >>
              ELSE /\ all_results' = << >>
                   /\ tool_calls' = 0
                   /\ all_success => continuations < MaxContinuations
                   /\ IF all_success
                      THEN ContinueTurn(messages, "tool results")
                      ELSE IF may_retry(retry_count)
                      THEN /\ CallModel(Append(messages, Message("system", "retry notice", retry_count)),
                                        Message("user", "retry", retry_count), retry_count + 1)
                           /\ UNCHANGED continuations
                      ELSE /\ SaveResponse(Append(messages, Message("system", "failure notice", max_retries)))
                           /\ UNCHANGED continuations
    /\ UNCHANGED << ctx_vars, norm_vars, agent_vars, TOOL_CONFIG, turns, plan_exec, plan_result, last_step,
                    last_reevaluation >>

\* variant of the returned dictionary that counts the results as the steps
ExecutionResult_mut(ex) ==
    [success |-> ex.successful_steps = Len(ex.steps), plan_name |-> ex.plan_name,
     total_steps |-> Len(ex.results), successful_steps |-> ex.successful_steps,
     results |-> ex.results]

\* the dictionary _execute_plan returns after its loop
ExecutionResult(ex) ==
    [success |-> ex.successful_steps = Len(ex.steps), plan_name |-> ex.plan_name,
     total_steps |-> Len(ex.steps), successful_steps |-> ex.successful_steps,
     results |-> ex.results]

\* what _execute_plan returns when the operator declines the plan
CancelledResult == [success |-> FALSE, error |-> "Plan execution cancelled by user"]

\* _execute_plan has returned result; stream_response continues the turn on
\* success and otherwise falls through to save the response
AfterPlan(result, base) ==
    /\ plan_result' = << result >>
    /\ IF result.success
       THEN ContinueTurn(base, "plan results")
       ELSE /\ SaveResponse(base)
            /\ UNCHANGED continuations

\* "break", or the loop condition found false
LeaveLoop(ex, base) ==
    /\ plan_exec' = ex
    /\ AfterPlan(ExecutionResult(ex), base)

\* back to "while step_index < len(steps)"
LoopAgain(ex, base) ==
    IF ex.step_index < Len(ex.steps)
    THEN /\ plan_exec' = ex
         /\ messages' = base
         /\ saved' = IF base = messages THEN saved ELSE base
         /\ pc' = "plan"
         /\ UNCHANGED << retry_count, model_calls, continuations, plan_result >>
    ELSE LeaveLoop(ex, base)

\* variant of the test that asks for a reevaluation after the last step too
reevaluate_after_success_mut(ex) == ex.allow_reevaluation

\* "if allow_reevaluation and step_index < len(steps) - 1"
reevaluate_after_success(ex) ==
    ex.allow_reevaluation /\ ex.step_index < Len(ex.steps) - 1

\* _reevaluate_plan up to its completion call: the request is added to the
\* conversation and the model is asked (manage's result is not written back)
RequestReevaluation(ex, step_num) ==
    /\ plan_exec' = [ex EXCEPT !.reevaluations =
                        IF ex.failed THEN [@ EXCEPT !.after_failure = @ + 1]
                                     ELSE [@ EXCEPT !.after_success = @ + 1]]
    /\ messages' = Append(messages, Message("system", "reevaluation request", step_num))
    /\ saved' = Append(messages, Message("system", "reevaluation request", step_num))
    /\ pc' = "reevaluate"
    /\ UNCHANGED << retry_count, model_calls, continuations, plan_result >>

\* variant of the prompt whose answer is not looked at
ConfirmPlan_mut(answer) ==
    /\ pc = "plan_confirm"
    /\ LoopAgain([plan_exec EXCEPT !.confirmed = answer], messages)
    /\ UNCHANGED << ctx_vars, norm_vars, agent_vars, TOOL_CONFIG, turns, tool_calls, all_results, last_call, last_step,
                    last_reevaluation >>

\* the operator answers "Execute this plan?"
ConfirmPlan(answer) ==
    /\ pc = "plan_confirm"
    /\ IF answer
       THEN LoopAgain([plan_exec EXCEPT !.confirmed = TRUE], messages)
       ELSE /\ AfterPlan(CancelledResult, messages)
            /\ UNCHANGED plan_exec
    /\ UNCHANGED << ctx_vars, norm_vars, agent_vars, TOOL_CONFIG, turns, tool_calls, all_results, last_call, last_step,
                    last_reevaluation >>

\* one pass of the loop of _execute_plan up to the reevaluation request;
\* tool: the "tool" and "arguments" of the step
ExecutePlanStep(tool, outcome) ==
    /\ pc = "plan"
    /\ LET step == plan_exec.steps[plan_exec.step_index + 1]
           step_num == step.step_number
           pass == [step_index |-> plan_exec.step_index, step_number |-> step_num, tool |-> tool,
                    is_destructive |-> FALSE, asked |-> FALSE, invoked |-> FALSE]
       IN  IF ~tool.has_sep
           THEN /\ LeaveLoop([plan_exec EXCEPT !.results =
                        Append(@, [step |-> step_num, success |-> FALSE, error |-> "Invalid tool format"])],
                        messages)
                /\ last_step' = << pass >>
           ELSE IF ~tool.args_ok
           THEN /\ LeaveLoop([plan_exec EXCEPT !.results =
                        Append(@, [step |-> step_num, success |-> FALSE, error |-> "Invalid JSON arguments"])],
                        messages)
                /\ last_step' = << pass >>
           ELSE LET result == execute_tool_method(tool.tool_name, tool.method, outcome)
                    ran == [plan_exec EXCEPT !.results =
                               Append(@, [step |-> step_num, success |-> result.success,
                                          error |-> result.error]),
                                             !.invoked_steps = Append(@, plan_exec.step_index)]
                IN  /\ last_step' = << [pass EXCEPT
                                       !.is_destructive = destruct_flag(tool.tool_name, tool.method),
                                       !.invoked = result.invoked] >>
                    /\ IF result.success
                       THEN LET ok == [ran EXCEPT !.successful_steps = @ + 1, !.steps_done = @ + 1]
                            IN  IF reevaluate_after_success(ok)
                                THEN RequestReevaluation([ok EXCEPT !.failed = FALSE], step_num)
                                ELSE LoopAgain([ok EXCEPT !.step_index = @ + 1], messages)
                       ELSE IF ran.allow_reevaluation
                            THEN RequestReevaluation([ran EXCEPT !.failed = TRUE], step_num)
                            ELSE LeaveLoop(ran, messages)
    /\ UNCHANGED << ctx_vars, norm_vars, agent_vars, TOOL_CONFIG, turns, tool_calls, all_results, last_call,
                    last_reevaluation >>

\* the decision tokens a reevaluation reply can carry; "none": no token
\* that the pattern DECISION: (CONTINUE|UPDATE_PLAN|COMPLETE|ABORT) matches
Decisions == {"continue", "update_plan", "complete", "abort", "none"}

\* variant of the parse that reads a reply without decision as an abort
reevaluation_result_mut(decision, new_plan) ==
    [action |-> IF decision = "none" THEN "abort" ELSE decision,
     plan |-> IF decision = "update_plan" THEN new_plan ELSE << >>]

\* the dictionary _reevaluate_plan returns for a reply: new_plan is the
\* plan parsed from the reply, << >> when there is none
reevaluation_result(decision, new_plan) ==
    [action |-> IF decision = "none" THEN "continue" ELSE decision,
     plan |-> IF decision = "update_plan" THEN new_plan ELSE << >>]

\* the model's reevaluation reply arrives: the rest of _reevaluate_plan and
\* of the pass of the loop that asked for it; answer: what the operator
\* says if asked to confirm the replacement
Reevaluate(decision, new_plan, answer) ==
    /\ pc = "reevaluate"
    /\ (decision = "update_plan" /\ new_plan # << >> /\ answer)
            => plan_exec.replaced < MaxReplacements
    /\ LET reevaluation == reevaluation_result(decision, new_plan)
           base == Append(messages, Message("assistant", "reevaluation reply", 0))
           ex == plan_exec
       IN  IF ~ex.failed
           THEN CASE reevaluation.action = "continue" ->
                        LoopAgain([ex EXCEPT !.step_index = @ + 1], base)
                  [] reevaluation.action = "update_plan" ->
                        IF reevaluation.plan # << >>
                        THEN IF answer
                             THEN LoopAgain(replace_plan(ex, reevaluation.plan[1]), base)
                             ELSE LeaveLoop(ex, base)
                        ELSE LoopAgain([ex EXCEPT !.step_index = @ + 1], base)
                  [] OTHER -> LeaveLoop(ex, base)
           ELSE IF reevaluation.action = "update_plan" /\ reevaluation.plan # << >> /\ answer
                THEN LoopAgain(restart_plan(ex, reevaluation.plan[1]), base)
                ELSE LeaveLoop(ex, base)
    /\ last_reevaluation' = << [after_failure |-> plan_exec.failed,
                                 token |-> decision,
                                 action |-> reevaluation_result(decision, new_plan).action,
                                 plan |-> reevaluation_result(decision, new_plan).plan,
                                 confirmed |-> decision = "update_plan" /\ new_plan # << >> /\ answer] >>
    /\ UNCHANGED << ctx_vars, norm_vars, agent_vars, TOOL_CONFIG, turns, tool_calls, all_results, last_call, last_step >>

\* the sizes of the message the operator types
UserTokens == ShortTokens

\* the operator's answer is an input of a gateway call only if the gateway
\* asks, and the tool's behaviour only if the gateway calls the method
Answers(tool_call, config) ==
    IF execute_openrouter_tool_call(tool_call, config, TRUE, "ok").asked THEN BOOLEAN ELSE {TRUE}

MethodOutcomes(tool_call, config, answer) ==
    IF execute_openrouter_tool_call(tool_call, config, answer, "ok").invoked THEN Outcomes ELSE {"ok"}

\* what a tool method does when a plan step calls it
StepOutcomes == {"ok", "fails"}

\* Spec: turns whose responses are plain text or tool batches
Next ==
    \/ \E tokens \in UserTokens : StartTurn(tokens)
    \/ \E response \in PlainResponses \cup BatchResponses : ModelResponds(response)
    \/ \E tool_call \in ToolCalls :
         \E answer \in Answers(tool_call, TOOL_CONFIG) :
           \E outcome \in MethodOutcomes(tool_call, TOOL_CONFIG, answer) :
                ExecuteToolCall(tool_call, answer, outcome)

Spec == Init /\ [][Next]_vars

\* SpecPlan: turns whose first response carries a plan
NextPlan ==
    \/ \E tokens \in UserTokens : StartTurn(tokens)
    \/ \E response \in PlainResponses \cup PlanResponses : ModelResponds(response)
    \/ \E answer \in BOOLEAN : ConfirmPlan(answer)
    \/ \E tool \in StepCalls, outcome \in StepOutcomes : ExecutePlanStep(tool, outcome)
    \/ \E decision \in Decisions, new_plan \in {<< >>} \cup {<< p >> : p \in NewPlans},
          answer \in BOOLEAN :
            Reevaluate(decision, new_plan, answer)

SpecPlan == Init /\ [][NextPlan]_vars

\* _execute_plan is running: at its prompt, in its loop, or waiting for a
\* reevaluation reply
PlanRunning == pc \in {"plan_confirm", "plan", "reevaluate"}

\* SpecPlanFair: SpecPlan with the progress of the one thread that runs
\* _execute_plan: a prompt is answered, a tool method returns, a completion
\* call returns
SpecPlanFair ==
    /\ Init /\ [][NextPlan]_vars
    /\ WF_vars(\E answer \in BOOLEAN : ConfirmPlan(answer))
    /\ WF_vars(\E tool \in StepCalls, outcome \in StepOutcomes : ExecutePlanStep(tool, outcome))
    /\ WF_vars(\E decision \in Decisions, new_plan \in {<< >>} \cup {<< p >> : p \in NewPlans},
                  answer \in BOOLEAN :
                    Reevaluate(decision, new_plan, answer))

(***************************************************************************)
(* A completion call that raises.                                          *)
(***************************************************************************)
\* the completion call of the stream_response frame that dispatched the
\* call now waiting: a nested stream_response call was dispatched by the
\* frame of the call before it, a reevaluation by the frame of the plan
dispatching_call == IF pc = "model" THEN model_calls - 1 ELSE model_calls

\* "self.client.chat.completions.create" (or the iteration over its stream)
\* raises.  Neither call stands in a try block of its own.  The first call of
\* a turn stands outside every try block, so the exception leaves
\* stream_response and, main having no handler, the program.  Every later
\* call, and the call of _reevaluate_plan, runs below the "try" of the
\* stream_response call that dispatched the batch or the plan: its
\* "except Exception" prints "Could not parse tool call" and falls through
\* to save that call's response as the assistant's message.
ModelRaises ==
    /\ pc \in {"model", "reevaluate"}
    /\ IF pc = "model" /\ model_calls = 1
       THEN /\ pc' = "raised"
            /\ UNCHANGED << messages, saved >>
       ELSE /\ messages' = Append(messages, Message("assistant", "response", dispatching_call))
            /\ saved' = Append(messages, Message("assistant", "response", dispatching_call))
            /\ pc' = "swallowed"
    /\ UNCHANGED << ctx_vars, norm_vars, agent_vars, TOOL_CONFIG, retry_count, model_calls, turns, tool_calls,
                    all_results, last_call, continuations, plan_exec, plan_result,
                    last_step, last_reevaluation >>

(***************************************************************************)
(* SpecStore: the stored conversation over many turns of plain responses,  *)
(* with messages long enough for manage to compress what it writes back.   *)
(***************************************************************************)
\* messages the operator sends to the conversation
MaxStoreTurns == 8

InitStore ==
    /\ ctx_messages = << >>
    /\ ctx_runs = << >>
    /\ TurnIdle
    /\ NormIdle
    /\ AgentIdle
    /\ TOOL_CONFIG = [tools_enabled |-> TRUE, auto_execute_non_destructive |-> TRUE,
                      auto_execute_destructive |-> FALSE]

\* the operator sends a message, short or long
SendMessage(tokens) ==
    /\ turns < MaxStoreTurns
    /\ BeginTurn(tokens)

NextStore ==
    \/ \E tokens \in ShortTokens \cup LargeTokens : SendMessage(tokens)
    \/ \E response \in PlainResponses : ModelResponds(response)
    \/ ModelRaises

SpecStore == InitStore /\ [][NextStore]_vars

\* SpecFail: turns of every kind, under one policy and with short plans, in
\* which a completion call may raise
ShortPlanResponses == [kind : {"plan"}, plan : {Plan("plan", 1), Plan("plan", 2)}]

NextFail ==
    \/ \E tokens \in UserTokens : StartTurn(tokens)
    \/ \E response \in PlainResponses \cup BatchResponses \cup ShortPlanResponses :
            ModelResponds(response)
    \/ \E tool_call \in ToolCalls :
         \E answer \in Answers(tool_call, TOOL_CONFIG) :
           \E outcome \in MethodOutcomes(tool_call, TOOL_CONFIG, answer) :
                ExecuteToolCall(tool_call, answer, outcome)
    \/ \E answer \in BOOLEAN : ConfirmPlan(answer)
    \/ \E tool \in StepCalls, outcome \in StepOutcomes : ExecutePlanStep(tool, outcome)
    \/ \E decision \in Decisions, new_plan \in {<< >>, << Plan("new plan", 1) >>},
          answer \in BOOLEAN :
            Reevaluate(decision, new_plan, answer)
    \/ ModelRaises

SpecFail == InitStore /\ [][NextFail]_vars

(***************************************************************************)
(* The response preprocessor (response_preprocessor.py).  A response is a  *)
(* list of tokens: the directive keywords with their colon, words, JSON    *)
(* punctuation and members, newlines, the vendor's special tokens and its  *)
(* "to=NAME" marks.  Blanks other than newlines stand between tokens and   *)
(* are not written.                                                        *)
(***************************************************************************)
Tok(t) == [t |-> t, v |-> ""]
\* a run of [A-Za-z0-9_] characters
Word(v) == [t |-> "word", v |-> v]
\* the characters "to=" followed by a word
ToMark(v) == [t |-> "to=", v |-> v]

Keywords == {"THOUGHT:", "PLAN:", "STEP:", "TOOL:", "ARGS:", "RESPONSE:"}
\* the tokens written "<|...|>"
SpecialTokens == {"<|channel|>", "<|message|>", "<|constrain|>", "<|end|>", "<|start|>", "<|call|>"}
\* JSON text: "{", "}", ",", member: "k": 1, key: "k": before an object,
\* str_open: "k": "text, str_close: text" (the text between the two may
\* hold braces)
NL == Tok("nl")

MinOf(S) == CHOOSE x \in S : \A y \in S : x <= y

\* str.strip() as far as newlines go
RECURSIVE strip(_)
strip(s) ==
    IF s = << >> THEN s
    ELSE IF s[1].t = "nl" THEN strip(Tail(s))
    ELSE IF s[Len(s)].t = "nl" THEN strip(SubSeq(s, 1, Len(s) - 1))
    ELSE s

\* the index \s* leads to from i
RECURSIVE SkipNl(_, _)
SkipNl(s, i) == IF i <= Len(s) /\ s[i].t = "nl" THEN SkipNl(s, i + 1) ELSE i

\* the index of the newline that ends the line of i (Len(s) + 1: none)
RECURSIVE LineEnd(_, _)
LineEnd(s, i) == IF i > Len(s) \/ s[i].t = "nl" THEN i ELSE LineEnd(s, i + 1)

\* the first index from i on whose token has one of the types (0: none)
FirstOf(s, i, types) ==
    LET found == { j \in i..Len(s) : s[j].t \in types }
    IN  IF found = {} THEN 0 ELSE MinOf(found)

\* json.loads: the index after the object that starts at i, 0 when the
\* text from i on is no object
RECURSIVE ObjEnd(_, _)
RECURSIVE ItemsEnd(_, _)
ItemEnd(s, i) ==
    IF i > Len(s) THEN 0
    ELSE IF s[i].t = "member" THEN i + 1
    ELSE IF s[i].t = "key" THEN ObjEnd(s, i + 1)
    ELSE IF s[i].t = "str_open"
    THEN LET close == FirstOf(s, i + 1, {"str_close"})
         IN  IF close = 0 THEN 0 ELSE close + 1
    ELSE 0

ItemsEnd(s, i) ==
    LET e == ItemEnd(s, i)
    IN  IF e = 0 \/ e > Len(s) THEN 0
        ELSE IF s[e].t = "}" THEN e + 1
        ELSE IF s[e].t = "," THEN ItemsEnd(s, e + 1)
        ELSE 0

ObjEnd(s, i) ==
    IF i >= Len(s) \/ s[i].t # "{" THEN 0
    ELSE IF s[i + 1].t = "}" THEN i + 2
    ELSE ItemsEnd(s, i + 1)

\* json.loads(text) succeeds; newlines between JSON tokens are whitespace
JsonValid(s) ==
    LET w == SelectSeq(s, LAMBDA x : x.t # "nl")
    IN  ObjEnd(w, 1) = Len(w) + 1

\* the value json.loads gives, as the text without its whitespace
JsonValue(s) == SelectSeq(s, LAMBDA x : x.t # "nl")

EmptyObject == << Tok("{"), Tok("}") >>

\* Step 1: "<|channel|>final.*?<|message|>(.+)$": the text after the first
\* <|message|> that follows the first "<|channel|>final", if text follows
final_channel(response) ==
    LET finals == { i \in 1..(Len(response) - 1) :
                        response[i].t = "<|channel|>" /\ response[i + 1] = Word("final") }
    IN  IF finals = {} THEN response
        ELSE LET m == FirstOf(response, MinOf(finals) + 2, {"<|message|>"})
             IN  IF m = 0 \/ m = Len(response) THEN response
                 ELSE SubSeq(response, m + 1, Len(response))

\* Step 1.5, tool_call_pattern matched at i:
\*   \bto=NAME (\s*<|constrain|>\w+)? (\s*<|message|>)? \s* (\{[^}]*\})
\* gives the tool name and where the braces stand; matched: FALSE otherwise
to_match(s, i) ==
    IF i > Len(s) \/ s[i].t # "to=" THEN [matched |-> FALSE]
    ELSE LET c == SkipNl(s, i + 1)
             j == IF c < Len(s) /\ s[c].t = "<|constrain|>" /\ s[c + 1].t = "word"
                  THEN c + 2 ELSE i + 1
             m == SkipNl(s, j)
             k == IF m <= Len(s) /\ s[m].t = "<|message|>" THEN m + 1 ELSE j
             open == SkipNl(s, k)
             close == FirstOf(s, open + 1, {"}"})
         IN  IF open <= Len(s) /\ s[open].t = "{" /\ close # 0
             THEN [matched |-> TRUE, name |-> s[i].v, open |-> open, close |-> close]
             ELSE [matched |-> FALSE]

\* "THOUGHT:\s*(.+?)(?=\bto=|$)" searched in the text before a match
thought_before(prefix) ==
    LET i == FirstOf(prefix, 1, {"THOUGHT:"})
    IN  IF i = 0 \/ i = Len(prefix) THEN << >>
        ELSE LET to == FirstOf(prefix, i + 1, {"to="})
             IN  strip(SubSeq(prefix, i + 1, IF to = 0 THEN Len(prefix) ELSE to - 1))

\* f"THOUGHT: {thought}\nTOOL: {tool_name}\nARGS: {args_json}"
standard_format(thought, tool_name, args_json) ==
    << Tok("THOUGHT:") >> \o thought \o << NL, Tok("TOOL:"), Word(tool_name), NL, Tok("ARGS:") >>
        \o args_json

\* every match of tool_call_pattern, from i on, replaced by the standard
\* format (the matches do not overlap; the thought of each is looked for in
\* the text before it, which the replacements made so far have not touched)
RECURSIVE convert_to_marks(_, _)
convert_to_marks(s, i) ==
    IF i > Len(s) THEN << >>
    ELSE LET m == to_match(s, i)
         IN  IF m.matched
             THEN standard_format(thought_before(SubSeq(s, 1, i - 1)), m.name,
                                  SubSeq(s, m.open, m.close))
                    \o convert_to_marks(s, m.close + 1)
             ELSE << s[i] >> \o convert_to_marks(s, i + 1)

\* "<|channel|>[^<]*<|message|>" removed: a <|channel|> goes together with
\* the text up to the next special token when that one is <|message|>
RECURSIVE remove_channel_headers(_, _)
remove_channel_headers(s, i) ==
    IF i > Len(s) THEN << >>
    ELSE LET next == FirstOf(s, i + 1, SpecialTokens)
         IN  IF s[i].t = "<|channel|>" /\ next # 0 /\ s[next].t = "<|message|>"
             THEN remove_channel_headers(s, next + 1)
             ELSE << s[i] >> \o remove_channel_headers(s, i + 1)

\* "<|start|>assistant" and "<|constrain|>\w+" removed (which: the special
\* token, word: the word it must be, "" for any)
RECURSIVE remove_with_word(_, _, _, _)
remove_with_word(s, i, which, word) ==
    IF i > Len(s) THEN << >>
    ELSE IF /\ s[i].t = which /\ i < Len(s) /\ s[i + 1].t = "word"
            /\ (word = "" \/ s[i + 1].v = word)
    THEN remove_with_word(s, i + 2, which, word)
    ELSE << s[i] >> \o remove_with_word(s, i + 1, which, word)

\* "Remove any remaining special tokens", then strip()
cleaned_response(response) ==
    LET a == remove_channel_headers(response, 1)
        b == SelectSeq(a, LAMBDA x : x.t # "<|end|>")
        c == remove_with_word(b, 1, "<|start|>", "assistant")
        d == remove_with_word(c, 1, "<|constrain|>", "")
        e == SelectSeq(d, LAMBDA x : x.t \notin SpecialTokens)
    IN  strip(e)

\* "THOUGHT:\s*(.+?)(?=(?:TOOL:|PLAN:|RESPONSE:|$))", else "Processing..."
thought_content(response) ==
    LET i == FirstOf(response, 1, {"THOUGHT:"})
    IN  IF i = 0 \/ i = Len(response) THEN << Word("Processing...") >>
        ELSE LET stop == FirstOf(response, i + 1, {"TOOL:", "PLAN:", "RESPONSE:"})
             IN  strip(SubSeq(response, i + 1, IF stop = 0 THEN Len(response) ELSE stop - 1))

\* "PLAN:\s*([^\n]+)": the rest of the line of the first PLAN: that has one
plan_name(response) ==
    LET named == { i \in 1..Len(response) :
                     /\ response[i].t = "PLAN:"
                     /\ SkipNl(response, i + 1) <= Len(response) }
    IN  IF named = {} THEN << Word("Unnamed"), Word("Plan") >>
        ELSE LET from == SkipNl(response, MinOf(named) + 1)
             IN  SubSeq(response, from, LineEnd(response, from) - 1)

\* the step pattern matched at i:
\*   STEP:\s*([^\n]+)\s*\n\s*TOOL:\s*([A-Za-z0-9_]+)\s*\n\s*ARGS:\s*(\{[^\n]*\})
\* the description is the rest of a line, the name is a word that ends its
\* line, and the arguments end at the last "}" of the line of their "{"
step_match(s, i) ==
    IF i > Len(s) \/ s[i].t # "STEP:" THEN [matched |-> FALSE]
    ELSE LET d == SkipNl(s, i + 1)
             d_end == LineEnd(s, d)
             tool == SkipNl(s, d_end)
             name == SkipNl(s, tool + 1)
             args == SkipNl(s, name + 1)
             open == SkipNl(s, args + 1)
             closes == { k \in (open + 1)..(LineEnd(s, open) - 1) : s[k].t = "}" }
         IN  IF /\ d < d_end /\ d_end <= Len(s)
                /\ tool <= Len(s) /\ s[tool].t = "TOOL:"
                /\ name <= Len(s) /\ s[name].t = "word"
                /\ name + 1 <= Len(s) /\ s[name + 1].t = "nl"
                /\ args <= Len(s) /\ s[args].t = "ARGS:"
                /\ open <= Len(s) /\ s[open].t = "{"
                /\ closes # {}
             THEN [matched |-> TRUE,
                   description |-> SubSeq(s, d, d_end - 1),
                   tool |-> s[name].v,
                   args |-> SubSeq(s, open, CHOOSE k \in closes : \A l \in closes : l <= k),
                   end |-> CHOOSE k \in closes : \A l \in closes : l <= k]
             ELSE [matched |-> FALSE]

\* re.finditer of the step pattern from i on; a step's arguments that are
\* not valid JSON become "{}"
RECURSIVE step_blocks(_, _)
step_blocks(s, i) ==
    IF i > Len(s) THEN << >>
    ELSE LET m == step_match(s, i)
         IN  IF m.matched
             THEN << [description |-> m.description, tool |-> m.tool,
                      arguments |-> IF JsonValid(m.args) THEN m.args ELSE EmptyObject] >>
                    \o step_blocks(s, m.end + 1)
             ELSE step_blocks(s, i + 1)

\* the steps with "step_number": enumerate(step_blocks, 1)
plan_steps(response) ==
    LET blocks == step_blocks(response, 1)
    IN  [n \in 1..Len(blocks) |->
            [step_number |-> n, description |-> blocks[n].description,
             tool |-> blocks[n].tool, arguments |-> blocks[n].arguments]]

\* the letters [A-Za-z0-9_]+ finds at the start of a token ("": none)
leading_word(token) ==
    IF token.t = "word" THEN token.v
    ELSE IF token.t \in Keywords THEN token.t
    ELSE IF token.t = "to=" THEN "to"
    ELSE ""

\* "TOOL:\s*([A-Za-z0-9_]+)" matched at i
tool_match(s, i) ==
    /\ s[i].t = "TOOL:"
    /\ SkipNl(s, i + 1) <= Len(s)
    /\ leading_word(s[SkipNl(s, i + 1)]) # ""

\* "ARGS:\s*(\{.*?\})\s*(?=\n|$)" searched in a segment: the first ARGS:
\* with a "{" behind it and a "}" after that which ends its line or the
\* segment; the text from the "{" to the first such "}"
args_match(segment) ==
    LET ends(open) == { k \in (open + 1)..Len(segment) :
                            /\ segment[k].t = "}"
                            /\ (k = Len(segment) \/ segment[k + 1].t = "nl") }
        found == { p \in 1..Len(segment) :
                        /\ segment[p].t = "ARGS:"
                        /\ SkipNl(segment, p + 1) <= Len(segment)
                        /\ segment[SkipNl(segment, p + 1)].t = "{"
                        /\ ends(SkipNl(segment, p + 1)) # {} }
    IN  IF found = {} THEN [matched |-> FALSE]
        ELSE LET open == SkipNl(segment, MinOf(found) + 1)
             IN  [matched |-> TRUE, text |-> SubSeq(segment, open, MinOf(ends(open)))]

\* the brace count of the scan that looks for the balanced end, after the
\* first j tokens
RECURSIVE brace_count(_, _)
brace_count(s, j) ==
    IF j = 0 THEN 0
    ELSE brace_count(s, j - 1) + (IF s[j].t = "{" THEN 1 ELSE IF s[j].t = "}" THEN -1 ELSE 0)

\* "Try to find balanced braces": the text up to the first "}" at which the
\* count is back at 0; nothing when the count never comes back
balanced(arguments_str) ==
    LET zeros == { j \in 1..Len(arguments_str) :
                        arguments_str[j].t = "}" /\ brace_count(arguments_str, j) = 0 }
    IN  IF zeros = {} THEN << >> ELSE SubSeq(arguments_str, 1, MinOf(zeros))

\* the arguments of the TOOL: matched at i, looked for up to the next match
\* (or the end of the response)
tool_arguments(s, i, next) ==
    LET name_at == SkipNl(s, i + 1)
        segment == SubSeq(s, name_at + 1, IF next = 0 THEN Len(s) ELSE next - 1)
        m == args_match(segment)
    IN  IF ~m.matched THEN EmptyObject
        ELSE IF JsonValid(balanced(m.text)) THEN balanced(m.text)
        ELSE EmptyObject

\* the tool calls of a response with a TOOL: directive
tool_calls_of(response) ==
    LET at == { i \in 1..Len(response) : tool_match(response, i) }
        nth(n) == CHOOSE i \in at : Cardinality({ j \in at : j < i }) = n - 1
    IN  [n \in 1..Cardinality(at) |->
            [id |-> n,
             name |-> leading_word(response[SkipNl(response, nth(n) + 1)]),
             arguments |-> tool_arguments(response, nth(n),
                                          IF n < Cardinality(at) THEN nth(n + 1) ELSE 0)]]

\* "RESPONSE:\s*(.+)", else the whole cleaned response
direct_answer(response) ==
    LET answers == { i \in 1..(Len(response) - 1) : response[i].t = "RESPONSE:" }
    IN  IF answers = {} THEN strip(response)
        ELSE strip(SubSeq(response, MinOf(answers) + 1, Len(response)))

\* the dictionary built from the cleaned response: a plan when there is a
\* PLAN: and a step block, else tool calls when there is a TOOL: with a
\* name, else the direct answer
parse_directives(response) ==
    IF FirstOf(response, 1, {"PLAN:"}) # 0 /\ plan_steps(response) # << >>
    THEN [content |-> thought_content(response),
          plan |-> [name |-> plan_name(response), steps |-> plan_steps(response)]]
    ELSE IF FirstOf(response, 1, {"TOOL:"}) # 0 /\ tool_calls_of(response) # << >>
    THEN [content |-> thought_content(response), tool_calls |-> tool_calls_of(response)]
    ELSE [content |-> direct_answer(response)]

\* preprocess_primary_agent_response (preprocess_custom_model_response
\* delegates to it)
preprocess_primary_agent_response(response) ==
    parse_directives(cleaned_response(convert_to_marks(final_channel(response), 1)))

\* stream_response looks at the dictionary: "plan" first, else "tool_calls"
dispatch(json_match) ==
    IF "plan" \in DOMAIN json_match /\ DOMAIN json_match.plan # {} THEN "plan"
    ELSE IF "tool_calls" \in DOMAIN json_match /\ json_match.tool_calls # << >> THEN "tool_calls"
    ELSE "response"

(***************************************************************************)
(* SpecNorm: responses written in the directive grammar of the system      *)
(* prompt (config.py) and in the vendor's channel markup, preprocessed     *)
(* and dispatched.                                                         *)
(***************************************************************************)
\* tool directives in a response without plan
MaxDirectives == 2
\* steps of a plan in a response
MaxPlanSteps == 2

\* the names of the directives of a response, by position
ToolNames == << "FILE_EXPLORER__read_file", "FILE_EXPLORER__list_directory",
                "FILE_MANAGER__write_file", "FILE_MANAGER__delete",
                "WEB_SEARCH__search" >>
LooseToolName == "AGENTS__list_agents"

\* how the JSON object of a directive is written:
\*   flat {"k": 1}   nested {"k": {"k": 1}}   pretty: the flat object over
\*   three lines   brace_in_string {"k": "a } b"}   invalid {"k": }
ArgForms == {"flat", "nested", "pretty", "brace_in_string", "invalid"}
args_text(form) ==
    CASE form = "flat" -> << Tok("{"), Tok("member"), Tok("}") >>
      [] form = "nested" -> << Tok("{"), Tok("key"), Tok("{"), Tok("member"), Tok("}"), Tok("}") >>
      [] form = "pretty" -> << Tok("{"), NL, Tok("member"), NL, Tok("}") >>
      [] form = "brace_in_string" -> << Tok("{"), Tok("str_open"), Tok("}"), Tok("str_close"), Tok("}") >>
      [] OTHER -> << Tok("{"), Tok("key"), Tok("}") >>

\* a directive as TOOL:/ARGS: lines
lines_directive(name, form) ==
    << Tok("TOOL:"), Word(name), NL, Tok("ARGS:") >> \o args_text(form)

\* a directive in the vendor's markup:
\*   <|channel|>commentary to=NAME <|constrain|>json<|message|>{...}
\* ended by <|call|> when the message is closed as a call
vendor_directive(name, form, closed) ==
    << Tok("<|channel|>"), Word("commentary"), ToMark(name), Tok("<|constrain|>"), Word("json"),
       Tok("<|message|>") >> \o args_text(form) \o (IF closed THEN << Tok("<|call|>") >> ELSE << >>)

\* how a directive is written, and what follows it when another directive
\* comes: a newline, or the start of the next message on the same line
Directives ==
    [style : {"lines"}, args : ArgForms, next : {"newline"}]
        \cup [style : {"vendor"}, args : ArgForms, next : {"newline", "message"}]

directive_text(d, name, last) ==
    IF d.style = "lines"
    THEN lines_directive(name, d.args) \o (IF last THEN << >> ELSE << NL >>)
    ELSE vendor_directive(name, d.args, d.next = "message")
            \o (IF last THEN << >>
                ELSE IF d.next = "newline" THEN << NL >>
                ELSE << Tok("<|start|>"), Word("assistant") >>)

RECURSIVE directives_text(_, _)
directives_text(ds, n) ==
    IF n > Len(ds) THEN << >>
    ELSE directive_text(ds[n], ToolNames[n], n = Len(ds)) \o directives_text(ds, n + 1)

\* the steps of a plan: STEP:, TOOL: and ARGS: lines
RECURSIVE steps_text(_, _)
steps_text(forms, n) ==
    IF n > Len(forms) THEN << >>
    ELSE << Tok("STEP:"), Word("description"), NL >> \o lines_directive(ToolNames[n], forms[n])
            \o (IF n = Len(forms) THEN << >> ELSE << NL >>) \o steps_text(forms, n + 1)

\* the reasoning before the directives: a THOUGHT: line, alone or in the
\* final channel after an analysis channel
head_text(channels) ==
    (IF channels
     THEN << Tok("<|channel|>"), Word("analysis"), Tok("<|message|>"), Word("reasoning"),
             Tok("<|end|>"), Tok("<|start|>"), Word("assistant"),
             Tok("<|channel|>"), Word("final"), Tok("<|message|>") >>
     ELSE << >>) \o << Tok("THOUGHT:"), Word("reasoning"), NL >>

\* a string member of a JSON object: "key": "value"
Member(v) == [t |-> "member", v |-> v]
\* a key before an object or an array: "key":
Key(v) == [t |-> "key", v |-> v]

\* one entry of a "tool_calls" array in the wire format of the chat
\* completions API:
\*   {"id": "call_n", "type": "function",
\*    "function": {"name": NAME, "arguments": "{...}"}}
wire_call(n) ==
    << Tok("{"), Member("id"), Tok(","), Member("type"), Tok(","), Key("function"),
       Tok("{"), Member(ToolNames[n]), Tok(","), Member("arguments"), Tok("}"), Tok("}") >>

RECURSIVE wire_calls(_, _)
wire_calls(n, k) ==
    IF n > k THEN << >>
    ELSE wire_call(n) \o (IF n = k THEN << >> ELSE << Tok(",") >>) \o wire_calls(n + 1, k)

\* a response that is itself the JSON dictionary
\*   {"content": "...", "tool_calls": [ ... ]}
wire_text(k) ==
    << Tok("{"), Member("content"), Tok(","), Key("tool_calls"), Tok("[") >> \o wire_calls(1, k)
        \o << Tok("]"), Tok("}") >>

\* json.loads(wire_text(k)): the dictionary with its content and k calls
wire_value(k) ==
    [content |-> << Word("content") >>,
     tool_calls |-> [n \in 1..k |-> [id |-> n, name |-> ToolNames[n],
                                     arguments |-> args_text("flat")]]]

\* what the model wrote
ResponseSources ==
    [kind : {"tool_calls"}, channels : BOOLEAN,
     directives : UNION { [1..k -> Directives] : k \in 1..MaxDirectives }]
        \cup [kind : {"plan"}, channels : BOOLEAN,
              steps : UNION { [1..n -> ArgForms] : n \in 2..MaxPlanSteps },
              loose : {"none", "before", "after"}]
        \cup [kind : {"response"}, channels : BOOLEAN, directive : BOOLEAN]
        \cup [kind : {"json"}, channels : {FALSE}, calls : 1..MaxDirectives]

response_text(src) ==
    IF src.kind = "json" THEN wire_text(src.calls) ELSE
    head_text(src.channels) \o
    (CASE src.kind = "tool_calls" -> directives_text(src.directives, 1)
       [] src.kind = "plan" ->
            (IF src.loose = "before" THEN lines_directive(LooseToolName, "flat") \o << NL >> ELSE << >>)
                \o << Tok("PLAN:"), Word("plan_name"), NL >> \o steps_text(src.steps, 1)
                \o (IF src.loose = "after" THEN << NL >> \o lines_directive(LooseToolName, "flat") ELSE << >>)
       [] OTHER -> (IF src.directive THEN << Tok("RESPONSE:") >> ELSE << >>) \o << Word("answer") >>)

InitNorm ==
    /\ ctx_messages = << >>
    /\ ctx_runs = << >>
    /\ TurnIdle
    /\ TOOL_CONFIG = [tools_enabled |-> TRUE, auto_execute_non_destructive |-> TRUE,
                      auto_execute_destructive |-> FALSE]
    /\ \E src \in ResponseSources : raw_response = << [source |-> src, text |-> response_text(src)] >>
    /\ intent = << >>
    /\ dispatched = ""
    /\ AgentIdle

\* "preprocessed_response = preprocess_custom_model_response(full_response)"
Preprocess ==
    /\ raw_response # << >> /\ intent = << >>
    /\ intent' = << preprocess_primary_agent_response(raw_response[1].text) >>
    /\ UNCHANGED << ctx_vars, turn_vars, agent_vars, raw_response, dispatched >>

\* stream_response, tools enabled, parses the preprocessed response and
\* hands it to _execute_plan, to the gateway, or renders it
Dispatch ==
    /\ intent # << >> /\ dispatched = ""
    /\ dispatched' = dispatch(intent[1])
    /\ UNCHANGED << ctx_vars, turn_vars, agent_vars, raw_response, intent >>

NextNorm == Preprocess \/ Dispatch

SpecNorm == InitNorm /\ [][NextNorm]_vars

(***************************************************************************)
(* SpecAgent: the AGENTS tool.  The primary agent calls invoke_agent       *)
(* through the gateway; invoke_agent asks the sub-agent's model and runs   *)
(* the tool calls it answers with.                                         *)
(***************************************************************************)
\* rounds of tool calls of one invoke_agent call ("max_tool_rounds: int = 10";
\* the caller may pass another value)
MaxToolRounds == 2

\* the primary agent's call of the AGENTS tool
InvokeAgentCall == Call(TRUE, "AGENTS", "invoke_agent", TRUE)

\* what a sub-agent's tool call can name: a function of the schema
\* _convert_viper_tools_to_openrouter_schema built (every declared method of
\* every tool but AGENTS), a name without "__", arguments that do not parse
AgentToolCalls ==
    { ReadCall, DeleteCall, Call(FALSE, "", "", TRUE),
      Call(TRUE, "FILE_EXPLORER", "read_file", FALSE) }

\* AgentsTool._execute_tool_call.  asked: Confirm.ask was called; invoked:
\* the tool's method was called.
agent_execute_tool_call(tool_call, outcome) ==
    IF ~tool_call.has_sep
    THEN [success |-> FALSE, error |-> "Invalid function name format",
          asked |-> FALSE, invoked |-> FALSE]
    ELSE IF ~tool_call.args_ok
    THEN [success |-> FALSE, error |-> "Tool execution failed",
          asked |-> FALSE, invoked |-> FALSE]
    ELSE LET r == execute_tool_method(tool_call.tool_name, tool_call.method, outcome)
         IN  [success |-> r.success, error |-> r.error, asked |-> FALSE, invoked |-> r.invoked]

\* a tool call of the sub-agent with what the tool method does if called
AgentRequests ==
    { q \in [tool_call : AgentToolCalls, outcome : Outcomes] :
        agent_execute_tool_call(q.tool_call, "ok").invoked \/ q.outcome = "ok" }

\* what a completion call of invoke_agent brings: a final message, tool
\* calls (finish_reason "tool_calls"), or an exception
AgentResponses ==
    { [kind |-> "final", calls |-> << >>], [kind |-> "raises", calls |-> << >>] } \cup
    { [kind |-> "tool_calls", calls |-> calls] :
        calls \in UNION { [1..n -> AgentRequests] : n \in BatchSizes } }

\* what invoke_agent returns
AgentResult(success, error, count) ==
    [success |-> success, error |-> error, tool_calls_made |-> count]

InitAgent ==
    /\ ctx_messages = << >>
    /\ ctx_runs = << >>
    /\ TurnIdle
    /\ TOOL_CONFIG.tools_enabled
    /\ NormIdle
    /\ AgentIdle

\* the gateway handles the primary agent's AGENTS__invoke_agent call, and
\* invoke_agent runs up to its first completion call.  known: the agent is
\* one of available_agents; tools: the schema goes with the completion calls
\* (tools enabled and the model supports them); answer: what the operator
\* says if the gateway asks
InvokeAgent(known, tools, answer) ==
    /\ agent.pc # "completion"
    /\ LET gate == execute_openrouter_tool_call(InvokeAgentCall, TOOL_CONFIG, answer, "ok")
       IN  agent' =
             IF ~gate.invoked
             THEN [NoAgent EXCEPT !.pc = "returned",
                                  !.result = << AgentResult(FALSE, gate.error, 0) >>]
             ELSE IF ~known
             THEN [NoAgent EXCEPT !.pc = "returned",
                                  !.result = << AgentResult(FALSE, "Agent not found", 0) >>]
             ELSE [NoAgent EXCEPT !.pc = "completion", !.tools = tools]
    /\ UNCHANGED << ctx_vars, turn_vars, norm_vars >>

\* one pass of "while tool_call_count < max_tool_rounds": the completion
\* call returns, its tool calls are executed, the loop condition is tested
AgentCompletion(response) ==
    /\ agent.pc = "completion"
    /\ response.kind = "tool_calls" => agent.tools
    /\ agent' =
         CASE response.kind = "raises" ->
                [agent EXCEPT !.pc = "returned",
                              !.result = << AgentResult(FALSE, "Failed to invoke agent", 0) >>]
           [] response.kind = "final" ->
                [agent EXCEPT !.pc = "returned",
                              !.result = << AgentResult(TRUE, "", agent.tool_call_count) >>]
           [] OTHER ->
                LET ran == [agent EXCEPT
                              !.executed = [i \in 1..Len(response.calls) |->
                                  [tool_call |-> response.calls[i].tool_call,
                                   result |-> agent_execute_tool_call(response.calls[i].tool_call,
                                                                      response.calls[i].outcome)]],
                              !.tool_call_count = @ + 1]
                IN  IF ran.tool_call_count < MaxToolRounds
                    THEN ran
                    ELSE [ran EXCEPT !.pc = "returned",
                                     !.result = << AgentResult(FALSE, "Maximum tool calling rounds",
                                                               ran.tool_call_count) >>]
    /\ UNCHANGED << ctx_vars, turn_vars, norm_vars >>

NextAgent ==
    \/ \E known \in BOOLEAN, tools \in BOOLEAN, answer \in Answers(InvokeAgentCall, TOOL_CONFIG) :
            InvokeAgent(known, tools, answer)
    \/ \E response \in AgentResponses : AgentCompletion(response)

SpecAgent == InitAgent /\ [][NextAgent]_vars

(***************************************************************************)
(* Properties of the gateway and of stream_response (checked under Spec).  *)
(***************************************************************************)
\* the auto-execute flag that matches the declared destructiveness of the
\* method a call names
MatchingFlag(tool_call) ==
    IF tool_call.tool_name = "FILE_MANAGER" /\ tool_call.method = "delete"
    THEN TOOL_CONFIG.auto_execute_destructive
    ELSE TOOL_CONFIG.auto_execute_non_destructive

\* the call names a callable attribute of a registered tool
Resolves(tool_call) ==
    \/ tool_call.tool_name = "FILE_EXPLORER" /\ tool_call.method \in {"read_file", "get_tool_spec"}
    \/ tool_call.tool_name = "FILE_MANAGER" /\ tool_call.method \in {"delete", "get_tool_spec"}

\* C2: a (well-formed) tool call through the gateway is executed without
\* asking the operator iff the auto-execute flag matching the method's
\* declared destructiveness is true; otherwise the operator is asked, and
\* on "no" the result is success=false with a "cancelled by user" error and
\* the tool method is not invoked.
C2_ConfirmationPolicy ==
    last_call # << >> =>
        LET tool_call == last_call[1].tool_call
            result == last_call[1].result
            answer == last_call[1].answer
        IN  (tool_call.has_sep /\ tool_call.args_ok) =>
                /\ result.asked <=> ~MatchingFlag(tool_call)
                /\ (result.asked /\ ~answer) =>
                        /\ ~result.success
                        /\ result.error = "Tool execution cancelled by user"
                        /\ ~result.invoked
                /\ result.invoked => (MatchingFlag(tool_call) \/ answer)
                /\ Resolves(tool_call) =>
                        /\ (result.invoked /\ ~result.asked) <=> MatchingFlag(tool_call)
                        /\ result.invoked <=> (MatchingFlag(tool_call) \/ answer)

\* C2 witness: the operator was asked about a destructive call, said no,
\* and the call came back cancelled without the method being invoked.
C2_Witness ==
    /\ last_call # << >>
    /\ last_call[1].tool_call = DeleteCall
    /\ ~TOOL_CONFIG.auto_execute_destructive
    /\ last_call[1].result.asked
    /\ ~last_call[1].answer
    /\ last_call[1].result.error = "Tool execution cancelled by user"

\* the last gateway call named a tool the registry does not hold (in a
\* well-formed name, with arguments that parse)
UnknownToolCalled ==
    /\ last_call # << >>
    /\ last_call[1].tool_call.has_sep
    /\ last_call[1].tool_call.args_ok
    /\ last_call[1].tool_call.tool_name \notin Tools

\* C11 (as claimed): a gateway call of a tool that is not in the registry
\* yields success=false with a "not found" error and invokes no tool
\* method, under every setting of the execution policy.
C11_UnknownToolNotFound ==
    UnknownToolCalled =>
        /\ ~last_call[1].result.success
        /\ last_call[1].result.error = "not found"
        /\ ~last_call[1].result.invoked

\* C11 (amended): a gateway call of a tool that is not in the registry
\* yields success=false and invokes no tool method under every setting of
\* the policy; it is treated as non-destructive, so with
\* auto_execute_non_destructive false the operator is asked first, and the
\* error is "cancelled by user" if the operator declines and "not found"
\* in every other case.
C11_UnknownToolFails ==
    UnknownToolCalled =>
        LET result == last_call[1].result
        IN  /\ ~result.success
            /\ ~result.invoked
            /\ ~result.is_destructive
            /\ result.asked <=> ~TOOL_CONFIG.auto_execute_non_destructive
            /\ result.error = IF result.asked /\ ~last_call[1].answer
                              THEN "Tool execution cancelled by user" ELSE "not found"

\* C11 witness: the operator was asked about a call of an unknown tool,
\* said yes, and the registry answered "not found".
C11_Witness ==
    /\ UnknownToolCalled
    /\ last_call[1].result.asked
    /\ last_call[1].answer
    /\ last_call[1].result.error = "not found"

\* the messages of the current turn: the operator's last message and what
\* stream_response has added after it
TurnMessages ==
    LET sent == { i \in 1..Len(messages) : messages[i].kind = "msg" }
    IN  IF sent = {} THEN << >>
        ELSE SubSeq(messages, CHOOSE i \in sent : \A j \in sent : j <= i, Len(messages))

\* the messages of a kind added in the current turn
CountKind(kind) == Cardinality({ i \in 1..Len(TurnMessages) : TurnMessages[i].kind = kind })

\* C3: while every response of the turn has been a tool batch with a
\* failing call, the retry counter runs from 0 to max_retries with one model
\* call and one failure notice per value; the (max_retries + 1)-th failing
\* batch appends the terminal notice, makes no further model call and ends
\* the turn.
C3_RetryInvariant ==
    (turns > 0 /\ continuations = 0) =>
        /\ retry_count \in 0..max_retries
        /\ model_calls = retry_count + 1
        /\ CountKind("retry notice") = retry_count
        /\ CountKind("retry") = retry_count
        /\ CountKind("failure notice") <= 1
        /\ CountKind("failure notice") = 1 =>
                /\ pc = "idle"
                /\ model_calls = max_retries + 1
                /\ Len(TurnMessages) = 2 * max_retries + 3
                /\ messages[Len(messages) - 1].kind = "failure notice"
                /\ messages[Len(messages)].kind = "response"

C3_RetryStep ==
    (pc = "tools" /\ continuations = 0 /\ pc' # "tools" /\ continuations' = 0) =>
        IF retry_count < max_retries
        THEN /\ pc' = "model"
             /\ retry_count' = retry_count + 1
             /\ model_calls' = model_calls + 1
             /\ messages' = messages \o << Message("system", "retry notice", retry_count),
                                           Message("user", "retry", retry_count) >>
        ELSE /\ pc' = "idle"
             /\ model_calls' = model_calls
             /\ messages' = messages \o << Message("system", "failure notice", max_retries),
                                           Message("assistant", "response", model_calls) >>

C3_BoundedRetries == [] C3_RetryInvariant /\ [][C3_RetryStep]_vars

\* C3 witness: the turn ended on the terminal failure notice after
\* max_retries + 1 model calls.
C3_Witness ==
    /\ pc = "idle"
    /\ continuations = 0
    /\ model_calls = max_retries + 1
    /\ CountKind("failure notice") = 1
    /\ CountKind("retry notice") = max_retries

(***************************************************************************)
(* Properties of the plan executor (checked under SpecPlan).               *)
(***************************************************************************)
\* C1: a plan step whose method is declared destructive is executed only
\* after the operator said yes for that step whenever
\* auto_execute_destructive is false, and a non-destructive step likewise
\* whenever auto_execute_non_destructive is false.
C1_StepsConfirmed ==
    (last_step # << >> /\ last_step[1].invoked) =>
        /\ (last_step[1].is_destructive /\ ~TOOL_CONFIG.auto_execute_destructive)
                => last_step[1].asked
        /\ (~last_step[1].is_destructive /\ ~TOOL_CONFIG.auto_execute_non_destructive)
                => last_step[1].asked

\* C4: after a failed step, an update_plan decision with a replacement
\* plan the operator confirms restarts execution at the first step of the
\* replacement with results and success count reset, and the result finally
\* returned then counts the replacement's steps and holds results of
\* replacement steps only (a replacement without steps ends the execution
\* at once with no results); any other decision after a failed step ends
\* the execution with no further step invoked.
C4_RestartStep ==
    (pc = "reevaluate" /\ plan_exec.failed /\ pc' # "reevaluate") =>
        LET d == last_reevaluation'[1]
        IN  IF d.action = "update_plan" /\ d.plan # << >> /\ d.confirmed
            THEN /\ plan_exec'.steps = d.plan[1].steps
                 /\ plan_exec'.step_index = 0
                 /\ plan_exec'.results = << >>
                 /\ plan_exec'.successful_steps = 0
                 /\ IF d.plan[1].steps # << >>
                    THEN pc' = "plan" /\ plan_result' = << >>
                    ELSE /\ plan_result' # << >>
                         /\ plan_result'[1].total_steps = 0
                         /\ plan_result'[1].results = << >>
            ELSE /\ pc' \in {"idle", "model"}
                 /\ plan_result' # << >>
                 /\ plan_result'[1].results = plan_exec.results
                 /\ last_step' = last_step

C4_RestartResult ==
    (plan_result # << >> /\ plan_exec.restarted_with # << >>) =>
        LET new_plan == plan_exec.restarted_with[1]
            result == plan_result[1]
        IN  /\ result.total_steps = Len(new_plan.steps)
            /\ result.plan_name = new_plan.name
            /\ Len(result.results) <= Len(new_plan.steps)
            /\ \A i \in 1..Len(result.results) :
                    result.results[i].step = new_plan.steps[i].step_number
            /\ result.successful_steps =
                    Cardinality({ i \in 1..Len(result.results) : result.results[i].success })

C4_RecoveryRestarts == [] C4_RestartResult /\ [][C4_RestartStep]_vars

\* C4 witness: execution was restarted with a two-step recovery plan and has
\* returned a result that counts two steps and holds both their results.
C4_Witness ==
    /\ plan_result # << >>
    /\ plan_exec.restarted_with # << >>
    /\ Len(plan_exec.restarted_with[1].steps) = 2
    /\ plan_result[1].total_steps = 2
    /\ Len(plan_result[1].results) = 2

\* C5 (as claimed): every termination of plan execution returns a result
\* with the plan name, the total and successful step counts and the list
\* of per-step results.
C5_AlwaysExecutionResult ==
    plan_result # << >> =>
        {"plan_name", "total_steps", "successful_steps", "results"} \subseteq DOMAIN plan_result[1]

\* C5 (amended): every termination of a plan the operator confirmed returns
\* a result with the name and the step count of the current plan, the
\* successful step count and the ordered per-step results collected since
\* the last restart, the last of which (if any) is the result of the last
\* step executed; a plan declined at the initial confirmation returns only
\* success=false and a "cancelled by user" error.
C5_ResultShape ==
    plan_result # << >> =>
        LET result == plan_result[1]
        IN  IF ~plan_exec.confirmed
            THEN /\ DOMAIN result = {"success", "error"}
                 /\ ~result.success
                 /\ result.error = "Plan execution cancelled by user"
            ELSE /\ DOMAIN result = {"success", "plan_name", "total_steps", "successful_steps", "results"}
                 /\ result.plan_name = plan_exec.plan_name
                 /\ result.total_steps = Len(plan_exec.steps)
                 /\ result.successful_steps =
                        Cardinality({ i \in 1..Len(result.results) : result.results[i].success })
                 /\ result.results = plan_exec.results
                 /\ result.results # << >> =>
                        /\ last_step # << >>
                        /\ result.results[Len(result.results)].step = last_step[1].step_number
                        /\ result.results[Len(result.results)].success => last_step[1].invoked

\* C5 witness: a confirmed plan halted at a failed step and the result
\* returned ends with that step's failure.
C5_Witness ==
    /\ plan_result # << >>
    /\ plan_exec.confirmed
    /\ ~plan_result[1].success
    /\ Len(plan_result[1].results) = 2
    /\ ~plan_result[1].results[2].success

(***************************************************************************)
(* Properties of the context manager (checked under SpecCtx).              *)
(***************************************************************************)
Cost(ms) == get_conversation_token_count(ms)

OverThreshold(ms) == Cost(ms) * 100 > token_window * compression_threshold_pct

Min(a, b) == IF a <= b THEN a ELSE b

\* C6: the list manage returns never costs more than token_window tokens.
C6_OutputWithinWindow ==
    \A i \in 1..Len(ctx_runs) : Cost(ctx_runs[i].res.out) <= token_window

\* C7 (as claimed): a second manage call in succession changes nothing and
\* makes no summarization call, for every message list; and a list at or
\* under the threshold comes back unchanged.
C7_Idempotent ==
    /\ \A i \in 1..Len(ctx_runs) :
            ~OverThreshold(ctx_runs[i].arg) => ctx_runs[i].res.out = ctx_runs[i].arg
    /\ Len(ctx_runs) = 2 =>
            /\ ctx_runs[2].res.out = ctx_runs[1].res.out
            /\ ctx_runs[2].res.calls = 0

\* C7 (amended): a list at or under token_window x compression_threshold
\* comes back unchanged with no summarization call, so a second call in
\* succession changes nothing whenever the first call's result is at or
\* under that threshold.
C7_IdempotentUnderThreshold ==
    /\ \A i \in 1..Len(ctx_runs) :
            ~OverThreshold(ctx_runs[i].arg) =>
                /\ ctx_runs[i].res.out = ctx_runs[i].arg
                /\ ctx_runs[i].res.calls = 0
    /\ (Len(ctx_runs) = 2 /\ ~OverThreshold(ctx_runs[1].res.out)) =>
            /\ ctx_runs[2].res.out = ctx_runs[1].res.out
            /\ ctx_runs[2].res.calls = 0

\* C7 witness: a first call summarized the list to under the threshold and
\* the second call has returned it unchanged.
C7_Witness ==
    /\ Len(ctx_runs) = 2
    /\ ctx_runs[1].res.path = "summarized"
    /\ ~ctx_runs[1].res.again
    /\ ~OverThreshold(ctx_runs[1].res.out)
    /\ ctx_runs[2].res.out = ctx_runs[1].res.out

\* C8: the token cost of manage's output is never greater than the cost of
\* its input, on every path.
C8_CostNonIncreasing ==
    \A i \in 1..Len(ctx_runs) : Cost(ctx_runs[i].res.out) <= Cost(ctx_runs[i].arg)

\* C9: when the summarization request would cost more than 0.9 x
\* token_window, manage makes no model call and returns the system prompt, a
\* truncation notice and the last max(3, recent_messages_to_keep / 3)
\* messages; when the summarized list still costs more than 0.95 x
\* token_window, it is aggressively compressed: system prompt, a notice for
\* the messages dropped from it, and its last max(3, ...) messages.
C9_Cascade ==
    \A i \in 1..Len(ctx_runs) :
        LET arg == ctx_runs[i].arg
            res == ctx_runs[i].res
            keep == Max(3, recent_messages_to_keep \div 3)
            summarized == << arg[1], summarized_message(ctx_runs[i].reply.summary) >>
                              \o SubSeq(arg, Len(arg) - recent_messages_to_keep + 1, Len(arg))
        IN  /\ res.path = "too_large" =>
                /\ res.calls = 0
                /\ Len(res.out) = keep + 2
                /\ res.out[1] = arg[1]
                /\ res.out[2].kind = "notice"
                /\ SubSeq(res.out, 3, keep + 2) = SubSeq(arg, Len(arg) - keep + 1, Len(arg))
            /\ (res.path = "summarized" /\ Cost(summarized) * 100 > token_window * final_limit_pct) =>
                res.out = << arg[1], truncation_note(recent_messages_to_keep + 2 - keep - 1) >>
                              \o SubSeq(arg, Len(arg) - keep + 1, Len(arg))
            /\ (res.path = "summarized" /\ Cost(summarized) * 100 <= token_window * final_limit_pct) =>
                res.out = summarized

\* C9 witness: the summarization request was too large and manage returned
\* the truncated list without a model call.
C9_Witness ==
    \E i \in 1..Len(ctx_runs) :
        /\ ctx_runs[i].res.path = "too_large"
        /\ ctx_runs[i].res.calls = 0
        /\ Len(ctx_runs[i].res.out) = 5
        /\ Len(ctx_runs[i].arg) >= 12

\* the second case of C9 happens as well: a summarized list over 0.95 x
\* token_window went through aggressive compression
C9_SummarizedThenAggressive ==
    \E i \in 1..Len(ctx_runs) : ctx_runs[i].res.path = "summarized" /\ ctx_runs[i].res.again

C12_SystemPromptFirst ==
    /\ messages # << >>
    /\ messages[1] = SystemPrompt

\* C12 witness: a summarized list was written back and a message appended
\* to it, with the system prompt still first.
C12_Witness ==
    /\ Len(messages) >= 3
    /\ messages[1] = SystemPrompt
    /\ messages[2].kind = "summary"
    /\ messages[Len(messages)].kind = "response"

\* the other write-backs C12 names happen as well: the aggressively
\* compressed list, and the failure fallback (which leaves the system
\* prompt twice in a list of at most recent_messages_to_keep + 4 messages)
C12_AggressiveWrittenBack == Len(messages) >= 2 /\ messages[2].kind = "notice"
C12_FallbackWrittenBack == Len(messages) >= 2 /\ messages[2] = SystemPrompt

\* s is a prefix of t
IsPrefix(s, t) == Len(s) <= Len(t) /\ SubSeq(t, 1, Len(s)) = s

\* C13: the stored message list changes only by appends: every step
\* leaves the list it had as a prefix of the list it has.
C13_AppendOnly == [][IsPrefix(messages, messages')]_vars

(***************************************************************************)
(* Properties of a turn whose completion call raises (under SpecFail).     *)
(***************************************************************************)
\* C14: when a completion call raises at any point of a turn, the call of
\* the turn itself or one of a continuation, a retry or a reevaluation, the
\* exception leaves the top-level stream_response call, no assistant
\* message is appended for the turn, and the conversation in memory is the
\* one last saved.
C14_RaisePropagates ==
    [][(pc \in {"model", "reevaluate"} /\ pc' \in {"raised", "swallowed"}) =>
            /\ pc' = "raised"
            /\ messages' = messages
            /\ messages' = saved']_vars

\* the call of a continuation raised: the turn ended with the exception
\* caught and the dispatching call's response saved
C14_SwallowedInContinuation ==
    ~(pc = "swallowed" /\ continuations = 1 /\ messages[Len(messages)].kind = "response")

\* (under SpecStore) the first call of a turn raised after manage's
\* write-back had compressed the conversation: the list in memory is not
\* the saved one
C14_RaisedUnsaved == ~(pc = "raised" /\ messages # saved)

(***************************************************************************)
(* Properties of the continuation after results (under SpecFail).          *)
(***************************************************************************)
\* the batch in progress ends with this step and every call of it succeeded
BatchSucceeds ==
    /\ pc = "tools" /\ tool_calls' = 0
    /\ last_call'[1].result.success
    /\ \A i \in 1..Len(all_results) : all_results[i].success

\* _execute_plan returns with this step and its result is a success
PlanSucceeds == plan_result = << >> /\ plan_result' # << >> /\ plan_result'[1].success

\* stream_response calls itself with the synthetic user message after
\* one system message of the given kind, the retry counter at 0
ContinuesAfter(kind) ==
    /\ IsPrefix(messages, messages')
    /\ LastN(messages', 2) = << Message("system", kind, 0), Message("user", "continue", 0) >>
    /\ Cardinality({i \in DOMAIN messages' : messages'[i].kind = kind})
            = Cardinality({i \in DOMAIN messages : messages[i].kind = kind}) + 1
    /\ retry_count' = 0
    /\ model_calls' = model_calls + 1
    /\ continuations' = continuations + 1
    /\ pc' = "model"

C15_ContinuationStep ==
    /\ BatchSucceeds => ContinuesAfter("tool results")
    /\ PlanSucceeds => ContinuesAfter("plan results")

\* in a continuation a failed batch is retried as long as the retry
\* counter is below max_retries, as in the original call
C15_ContinuationRetries ==
    (pc = "tools" /\ continuations > 0 /\ tool_calls' = 0 /\ continuations' = continuations) =>
        IF retry_count < max_retries
        THEN pc' = "model" /\ retry_count' = retry_count + 1
        ELSE pc' = "idle" /\ messages'[Len(messages') - 1].kind = "failure notice"

\* C15: after a tool batch whose calls all succeeded, or a plan that
\* succeeded, exactly one system message with the results is appended and
\* the turn continues with the synthetic user message and a retry counter
\* of 0; the continuation then has max_retries retries of its own.
C15_ContinuationFreshRetries == [][C15_ContinuationStep /\ C15_ContinuationRetries]_vars

\* C15 witness: a continuation used all of its max_retries retries and
\* ended on the failure notice.
C15_Witness ==
    /\ pc = "idle" /\ continuations = 1 /\ retry_count = max_retries
    /\ model_calls = max_retries + 2
    /\ messages[Len(messages) - 1].kind = "failure notice"

\* a plan succeeded and the turn continued
C15_PlanContinued ==
    /\ pc = "model" /\ continuations = 1 /\ plan_result # << >>
    /\ messages[Len(messages) - 1].kind = "plan results"

(***************************************************************************)
(* Properties of the plan prompt and of the reevaluation reply (SpecPlan). *)
(***************************************************************************)
\* a pass of the executor's loop was made only after the operator's yes
C16_ConfirmedBeforeSteps == last_step # << >> => plan_exec.confirmed

\* the operator declines: _execute_plan returns the cancelled result with
\* no pass of its loop made, no reevaluation requested and nothing added
\* to the conversation; stream_response then saves the model's response
\* as it does at the end of every turn
C16_DeclineStep ==
    (pc = "plan_confirm" /\ pc' # "plan_confirm" /\ ~plan_exec'.confirmed) =>
        /\ plan_result' = << CancelledResult >>
        /\ last_step' = << >>
        /\ last_reevaluation' = << >>
        /\ messages' = Append(messages, Message("assistant", "response", model_calls))
        /\ model_calls' = model_calls
        /\ pc' = "idle"

\* C16: no step of a plan is invoked before the operator confirmed the
\* plan; when the operator declines, the plan ends cancelled with no tool
\* invoked, no reevaluation requested and no message added by the executor.
C16_PlanConfirmedFirst == [] C16_ConfirmedBeforeSteps /\ [][C16_DeclineStep]_vars

\* C16 witness: the operator declined a plan with steps and the turn ended.
C16_Witness ==
    /\ pc = "idle" /\ plan_result = << CancelledResult >> /\ plan_exec.steps # << >>
    /\ ~plan_exec.confirmed /\ last_step = << >>
    /\ CountKind("reevaluation request") = 0

\* a step's method was invoked after the operator's yes
C16_InvokedAfterYes == last_step # << >> /\ last_step[1].invoked /\ plan_exec.confirmed

\* the reply to a reevaluation after a successful step carries no decision
\* token: the action is "continue", the cursor moves on by one, the plan
\* stays as it is and _execute_plan goes on with its loop
C17_NoTokenStep ==
    (pc = "reevaluate" /\ ~plan_exec.failed /\ pc' # "reevaluate"
        /\ last_reevaluation'[1].token = "none") =>
        /\ last_reevaluation'[1].action = "continue"
        /\ plan_exec' = [plan_exec EXCEPT !.step_index = @ + 1]
        /\ plan_exec'.step_index < Len(plan_exec'.steps)
        /\ pc' = "plan"
        /\ plan_result' = << >>

\* C17: a reevaluation reply without a parsable decision token counts as
\* continue: after a successful step that is not the last one the cursor
\* advances by exactly one, the plan is unchanged and execution goes on.
C17_NoTokenContinues == [][C17_NoTokenStep]_vars

\* C17 witness: execution stands at the second step after a reply without
\* decision token to the reevaluation that followed the first step.
C17_Witness ==
    /\ pc = "plan" /\ last_reevaluation # << >>
    /\ last_reevaluation[1].token = "none" /\ ~last_reevaluation[1].after_failure
    /\ plan_exec.step_index = 1 /\ plan_exec.successful_steps = 1
    /\ plan_exec.replaced = 0

(***************************************************************************)
(* Properties of the response preprocessor (checked under SpecNorm).       *)
(***************************************************************************)
\* the response in hand and, once preprocessed, what was made of it
Source == raw_response[1].source
Normalized == intent[1]

\* every directive or step of the response carries a JSON object
AllJson(forms) == \A n \in 1..Len(forms) : JsonValid(args_text(forms[n]))

\* C18: a response with a plan of N >= 2 steps, each with a STEP: line, a
\* TOOL: line and an ARGS: JSON object, is preprocessed into a plan of
\* exactly N steps in the order written, numbered 1..N.
C18_PlanStepsKept ==
    (intent # << >> /\ Source.kind = "plan" /\ AllJson(Source.steps)) =>
        /\ "plan" \in DOMAIN Normalized
        /\ Len(Normalized.plan.steps) = Len(Source.steps)
        /\ \A n \in 1..Len(Source.steps) :
                /\ Normalized.plan.steps[n].step_number = n
                /\ Normalized.plan.steps[n].tool = ToolNames[n]

\* the steps the preprocessor keeps are numbered 1.. in order
C18_DenseNumbers ==
    (intent # << >> /\ "plan" \in DOMAIN Normalized) =>
        \A n \in 1..Len(Normalized.plan.steps) : Normalized.plan.steps[n].step_number = n

\* a plan of two steps came out as a plan of one: the step whose object is
\* written over several lines is gone
C18_StepDropped ==
    ~(/\ intent # << >> /\ Source.kind = "plan" /\ AllJson(Source.steps)
      /\ Len(Source.steps) = 2 /\ "plan" \in DOMAIN Normalized
      /\ Len(Normalized.plan.steps) = 1)

\* a plan came out as a batch of tool calls
C18_PlanAsBatch ==
    ~(/\ intent # << >> /\ Source.kind = "plan" /\ AllJson(Source.steps)
      /\ Source.loose = "none" /\ "tool_calls" \in DOMAIN Normalized)

\* the output never carries a plan and tool calls
C19_OneIntent ==
    intent # << >> => ~("plan" \in DOMAIN Normalized /\ "tool_calls" \in DOMAIN Normalized)

\* a plan with loose tool directives beside it comes out as the plan
C19_PlanFirst ==
    (intent # << >> /\ Source.kind = "plan" /\ Source.loose # "none" /\ AllJson(Source.steps)) =>
        /\ "plan" \in DOMAIN Normalized
        /\ \A n \in 1..Len(Normalized.plan.steps) : Normalized.plan.steps[n].tool # LooseToolName

\* stream_response hands a response to the executor of what it carries
C19_OneDispatch ==
    dispatched # "" =>
        /\ dispatched = "plan" <=> "plan" \in DOMAIN Normalized
        /\ dispatched = "tool_calls" <=> "tool_calls" \in DOMAIN Normalized

\* C19: the preprocessed response carries one intent: never a plan and
\* tool calls together; a plan with loose tool directives beside it yields
\* the plan only; and stream_response hands it to at most one of the plan
\* executor and the gateway.
C19_ExactlyOneIntent == C19_OneIntent /\ C19_PlanFirst /\ C19_OneDispatch

\* C20: a response with k >= 1 tool directives and no plan, each written
\* as TOOL:/ARGS: lines or in the vendor's to=NAME markup with a JSON
\* object, is preprocessed into exactly k tool calls in the order written,
\* each with the name and the JSON arguments of its directive.
C20_DirectivesKept ==
    (/\ intent # << >> /\ Source.kind = "tool_calls"
     /\ \A n \in 1..Len(Source.directives) : JsonValid(args_text(Source.directives[n].args))) =>
        /\ "tool_calls" \in DOMAIN Normalized
        /\ Len(Normalized.tool_calls) = Len(Source.directives)
        /\ \A n \in 1..Len(Source.directives) :
                /\ Normalized.tool_calls[n].name = ToolNames[n]
                /\ JsonValue(Normalized.tool_calls[n].arguments)
                        = JsonValue(args_text(Source.directives[n].args))

\* the names and the number of the calls are those of the directives
C20_NamesKept ==
    (intent # << >> /\ Source.kind = "tool_calls") =>
        /\ "tool_calls" \in DOMAIN Normalized
        /\ Len(Normalized.tool_calls) = Len(Source.directives)
        /\ \A n \in 1..Len(Source.directives) : Normalized.tool_calls[n].name = ToolNames[n]

\* C21: a response that is already the JSON dictionary of the wire format,
\* with a content field and a tool_calls array, is preprocessed into that
\* same dictionary: it carries the same tool calls, and stream_response
\* hands them to the gateway.
C21_JsonPassesThrough ==
    (intent # << >> /\ Source.kind = "json") =>
        /\ Normalized = wire_value(Source.calls)
        /\ dispatched # "" => dispatched = "tool_calls"

\* the dictionary came out as the content of a plain response
C21_JsonAsContent ==
    /\ intent # << >> /\ Source.kind = "json"
    /\ Normalized = [content |-> wire_text(Source.calls)]
    /\ dispatched = "response"

(***************************************************************************)
(* Properties of the reevaluation decisions (checked under SpecPlan).      *)
(***************************************************************************)
\* the reply to the reevaluation that followed a successful step has
\* arrived with the decision token
DecidedAfterSuccess(token) ==
    /\ pc = "reevaluate" /\ ~plan_exec.failed /\ pc' # "reevaluate"
    /\ last_reevaluation'[1].token = token

\* "complete" leaves the loop at once: no further pass, the cursor and
\* the steps as they were
C22_CompleteStops ==
    DecidedAfterSuccess("complete") =>
        /\ plan_result' # << >>
        /\ plan_exec' = plan_exec
        /\ last_step' = last_step
        /\ pc' # "plan"

\* the plan that "complete" ended counts as a success: stream_response
\* appends the plan results and calls the model for the final answer
C22_CompleteCounts ==
    DecidedAfterSuccess("complete") =>
        /\ plan_result' # << >> /\ plan_result'[1].success
        /\ CountKind("plan results")' = CountKind("plan results") + 1
        /\ pc' = "model"

\* C22: after a successful step a "complete" decision stops the plan at
\* once, no further step invoked, and the plan ends as a success: the
\* results are appended and the turn continues to the final answer.
C22_CompleteIsSuccess == [][C22_CompleteStops /\ C22_CompleteCounts]_vars

\* a plan ended by "complete" after a successful step was returned as a
\* failure and the turn ended with the plan response as its answer
C22_CompleteFailed ==
    /\ pc = "idle" /\ last_reevaluation # << >>
    /\ last_reevaluation[1].token = "complete" /\ ~last_reevaluation[1].after_failure
    /\ plan_result # << >> /\ ~plan_result[1].success
    /\ plan_exec.successful_steps >= 1
    /\ CountKind("plan results") = 0

\* the operator confirmed the replacement plan that the reply to a
\* reevaluation after a successful step carried
ReplacedAfterSuccess ==
    /\ DecidedAfterSuccess("update_plan")
    /\ last_reevaluation'[1].confirmed
    /\ last_reevaluation'[1].plan[1].steps # << >>

\* C23: after a successful step, an update_plan decision with a
\* replacement plan that the operator confirms replaces the steps, and the
\* cursor stands on the first step of the replacement: that step is the
\* next one invoked and no step of the replacement is skipped.
C23_ReplacementFromFirst ==
    [][ReplacedAfterSuccess =>
            /\ plan_exec'.steps = last_reevaluation'[1].plan[1].steps
            /\ plan_exec'.plan_name = last_reevaluation'[1].plan[1].name
            /\ plan_exec'.step_index = 0
            /\ pc' = "plan"]_vars

\* the steps are replaced and the cursor moves on by one from where it
\* stood in the old plan
C23_CursorKept ==
    ReplacedAfterSuccess =>
        /\ plan_exec'.steps = last_reevaluation'[1].plan[1].steps
        /\ plan_exec'.step_index = plan_exec.step_index + 1

\* a replacement of two steps was accepted after step 1 of the old plan:
\* the loop stands before the replacement's step 2, its step 1 not run
C23_FirstStepSkipped ==
    /\ pc = "plan" /\ plan_exec.replaced = 1 /\ plan_exec.restarted_with = << >>
    /\ plan_exec.plan_name = "new plan" /\ Len(plan_exec.steps) = 2
    /\ plan_exec.step_index = 1
    /\ Len(plan_exec.results) = 1 /\ plan_exec.successful_steps = 1
    /\ last_reevaluation # << >> /\ last_reevaluation[1].confirmed

\* a replacement of one step was accepted after step 1 of the old plan
\* and _execute_plan returned a success without a pass through it
C23_ReplacementNeverRun ==
    /\ plan_result # << >> /\ plan_result[1].success
    /\ plan_exec.replaced = 1 /\ plan_exec.plan_name = "new plan"
    /\ Len(plan_exec.steps) = 1 /\ Len(plan_exec.results) = 1
    /\ last_reevaluation # << >> /\ ~last_reevaluation[1].after_failure
    /\ last_reevaluation[1].confirmed

\* _execute_plan returns from the reevaluation without another pass of
\* its loop, the plan as it was
PlanCancelled ==
    /\ plan_result' # << >> /\ ~plan_result'[1].success
    /\ plan_exec' = plan_exec
    /\ last_step' = last_step
    /\ pc' # "plan"

\* the operator declines the replacement: the plan is cancelled
C24_DeclinedCancels ==
    (DecidedAfterSuccess("update_plan") /\ last_reevaluation'[1].plan # << >>
        /\ ~last_reevaluation'[1].confirmed) => PlanCancelled

\* no plan could be parsed from the reply: the plan is cancelled
C24_NoPlanCancels ==
    (DecidedAfterSuccess("update_plan") /\ last_reevaluation'[1].plan = << >>) => PlanCancelled

\* C24: after a successful step, an update_plan decision whose reply
\* carries no plan that could be parsed, or whose replacement the operator
\* declines, cancels the whole plan: no further step of the old or of
\* the new plan is invoked.
C24_UnconfirmedCancels == [][C24_DeclinedCancels /\ C24_NoPlanCancels]_vars

\* the old plan went on with its second step after an update_plan reply
\* without a plan
C24_OldPlanWentOn ==
    /\ last_reevaluation # << >> /\ last_reevaluation[1].token = "update_plan"
    /\ last_reevaluation[1].plan = << >> /\ ~last_reevaluation[1].after_failure
    /\ pc = "plan" /\ plan_exec.replaced = 0 /\ plan_exec.plan_name = "plan"
    /\ plan_exec.step_index = 1 /\ plan_exec.step_index < Len(plan_exec.steps)

\* a pass of the loop of _execute_plan, reevaluation enabled, added the
\* result of a failed step
StepFailed ==
    /\ pc = "plan" /\ plan_exec.allow_reevaluation
    /\ Len(plan_exec'.results) = Len(plan_exec.results) + 1
    /\ ~plan_exec'.results[Len(plan_exec'.results)].success

\* the reevaluation request is in the conversation and the model is asked
\* before _execute_plan returns
RecoveryProbed ==
    /\ pc' = "reevaluate" /\ plan_exec'.failed
    /\ plan_result' = << >>
    /\ messages' = Append(messages, Message("system", "reevaluation request",
                                              last_step'[1].step_number))

\* a step whose method was called and failed is followed by the request
C25_MethodFailureProbed ==
    (StepFailed /\ last_step'[1].tool.has_sep /\ last_step'[1].tool.args_ok) => RecoveryProbed

\* C25: with reevaluation enabled, every failed plan step, a step whose
\* tool name lacks the "__" separator or whose arguments are no valid
\* JSON included, is followed by a reevaluation request to the model
\* before the plan terminates.
C25_EveryFailureProbed == [][StepFailed => RecoveryProbed]_vars

\* a plan ended on a step whose tool name has no separator, and no
\* reevaluation was requested
C25_InvalidFormatUnprobed ==
    /\ pc = "idle" /\ plan_result # << >> /\ ~plan_result[1].success
    /\ plan_exec.allow_reevaluation
    /\ last_step # << >> /\ ~last_step[1].tool.has_sep
    /\ plan_exec.results # << >>
    /\ plan_exec.results[Len(plan_exec.results)].error = "Invalid tool format"
    /\ CountKind("reevaluation request") = 0

(***************************************************************************)
(* Properties of the registry (checked under Spec).                        *)
(***************************************************************************)
\* the gateway was called for a registered tool and a method that the
\* tool's specification does not declare, and the operator, if asked, did
\* not decline
UndeclaredMethodCalled ==
    /\ last_call # << >>
    /\ last_call[1].tool_call.has_sep /\ last_call[1].tool_call.args_ok
    /\ last_call[1].tool_call.tool_name \in Tools
    /\ ~get_method_spec(last_call[1].tool_call.tool_name, last_call[1].tool_call.method).found
    /\ last_call[1].result.asked => last_call[1].answer

\* C26: a call naming a method that the tool's specification does not
\* declare is never executed: the result is success=false with a "not
\* found" error, whatever attributes the tool object has.
C26_UndeclaredNeverRuns ==
    UndeclaredMethodCalled =>
        /\ ~last_call[1].result.invoked
        /\ ~last_call[1].result.success
        /\ last_call[1].result.error = "not found"

\* a method the tool object does not have is not found
C26_MissingAttributeNotFound ==
    (UndeclaredMethodCalled
        /\ last_call[1].tool_call.method \notin CallableAttributes(last_call[1].tool_call.tool_name)) =>
            /\ ~last_call[1].result.invoked
            /\ ~last_call[1].result.success
            /\ last_call[1].result.error = "not found"

\* get_tool_spec, which no specification declares, was called through
\* the gateway without a question to the operator while the policy asks
\* for a confirmation of destructive calls
C26_UndeclaredInvoked ==
    /\ UndeclaredMethodCalled
    /\ last_call[1].tool_call.method = "get_tool_spec"
    /\ last_call[1].result.invoked
    /\ ~last_call[1].result.asked
    /\ ~TOOL_CONFIG.auto_execute_destructive

(***************************************************************************)
(* Properties of the end of a turn (checked under SpecFail).               *)
(***************************************************************************)
\* the top-level stream_response call of the turn has returned
TurnReturned == turns > 0 /\ pc \in {"idle", "swallowed"}

\* the responses stream_response saved in the current turn
SavedResponses ==
    { i \in 1..Len(TurnMessages) :
        TurnMessages[i].role = "assistant" /\ TurnMessages[i].kind = "response" }

\* C27: a top-level stream_response call that returns has appended
\* exactly one assistant message of its own, whatever tool, plan or retry
\* continuations ran in between (reevaluation replies aside); it is the
\* last message of the conversation and the response of the last
\* completion call, the one returned: no response that led to a
\* continuation is appended.
C27_OneAnswerPerTurn ==
    TurnReturned =>
        /\ Cardinality(SavedResponses) = 1
        /\ messages[Len(messages)] = Message("assistant", "response", model_calls)

\* one response per returned turn, the last message of the conversation
C27_OneResponseLast ==
    TurnReturned =>
        /\ Cardinality(SavedResponses) = 1
        /\ messages[Len(messages)].role = "assistant"
        /\ messages[Len(messages)].kind = "response"

\* while no completion call raised, the response is the last call's
C27_LastCallSaved ==
    (TurnReturned /\ pc = "idle") =>
        messages[Len(messages)] = Message("assistant", "response", model_calls)

\* the turn returned after its continuation's call raised: the message
\* appended is the tool-call response that led to the continuation
C27_IntermediateSaved ==
    /\ pc = "swallowed" /\ continuations = 1 /\ model_calls = 2
    /\ CountKind("tool results") = 1
    /\ messages[Len(messages)] = Message("assistant", "response", 1)

(***************************************************************************)
(* Properties of the result of _execute_plan (checked under SpecPlan).     *)
(***************************************************************************)
\* _execute_plan has returned from its loop with at least one result
PlanRan == plan_result # << >> /\ plan_exec.confirmed /\ plan_result[1].results # << >>

\* successful_steps counts the results with success = true
C28_SuccessesCounted ==
    PlanRan =>
        plan_result[1].successful_steps =
            Cardinality({ i \in 1..Len(plan_result[1].results) : plan_result[1].results[i].success })

\* C28: in every result a plan execution returns after at least one step,
\* whatever the step outcomes and the reevaluation decisions were,
\* successful_steps <= total_steps, successful_steps is the number of
\* results with success = true, and success is true only if every step of
\* the final version of the plan ran and succeeded.
C28_ResultInvariants ==
    PlanRan =>
        /\ plan_result[1].successful_steps <= plan_result[1].total_steps
        /\ plan_result[1].successful_steps =
                Cardinality({ i \in 1..Len(plan_result[1].results) : plan_result[1].results[i].success })
        /\ plan_result[1].success => plan_exec.steps_done = Len(plan_exec.steps)

\* while no replacement was accepted after a successful step, the three
\* hold
C28_WithoutReplacement ==
    (PlanRan /\ (plan_exec.replaced = 0 \/ plan_exec.restarted_with # << >>)) =>
        /\ plan_result[1].successful_steps <= plan_result[1].total_steps
        /\ plan_result[1].success => plan_exec.steps_done = Len(plan_exec.steps)

\* a result with more successful steps than steps: two steps of a plan
\* of three succeeded, then a replacement of one step was accepted
C28_MoreSuccessesThanSteps ==
    /\ PlanRan /\ plan_result[1].successful_steps = 2 /\ plan_result[1].total_steps = 1
    /\ ~plan_result[1].success /\ plan_exec.replaced = 1

\* a result with success = true for a plan none of whose steps ran
C28_SuccessWithoutSteps ==
    /\ PlanRan /\ plan_result[1].success
    /\ plan_exec.steps # << >> /\ plan_exec.steps_done = 0

(***************************************************************************)
(* Properties of the length of a plan execution (checked under            *)
(* SpecPlanFair).                                                          *)
(***************************************************************************)
\* the values of a list grow strictly
StrictlyIncreasing(s) == \A i, j \in 1..Len(s) : i < j => s[i] < s[j]

\* no replacement plan was accepted in the execution of the plan the
\* operator confirmed
NoReplacementAccepted == plan_exec.confirmed /\ plan_exec.replaced = 0

\* without an accepted replacement an N-step plan calls at most N tools,
\* each step at most once and in the order of the steps, and asks for at
\* most N - 1 reevaluations after successes and one after a failure
C29_BoundedWork ==
    NoReplacementAccepted =>
        /\ Len(plan_exec.invoked_steps) <= Len(plan_exec.steps)
        /\ StrictlyIncreasing(plan_exec.invoked_steps)
        /\ \A i \in 1..Len(plan_exec.invoked_steps) :
                plan_exec.invoked_steps[i] \in 0..(Len(plan_exec.steps) - 1)
        /\ plan_exec.reevaluations.after_success <= Max(Len(plan_exec.steps) - 1, 0)
        /\ plan_exec.reevaluations.after_failure <= 1

DestructiveRuns ==
    { i \in 1..Len(agent.executed) :
        /\ destruct_flag(agent.executed[i].tool_call.tool_name, agent.executed[i].tool_call.method)
        /\ agent.executed[i].result.invoked }

\* C30: while auto_execute_destructive is false, a method declared
\* destructive that a sub-agent requests inside invoke_agent is not executed
\* without an operator confirmation for that call
C30_SubAgentCallsConfirmed ==
    ~TOOL_CONFIG.auto_execute_destructive =>
        \A i \in DestructiveRuns : agent.executed[i].result.asked

\* the gateway would have asked the operator for every destructive call
\* the sub-agent ran, had the primary agent made it
C30_GatewayWouldAsk ==
    ~TOOL_CONFIG.auto_execute_destructive =>
        \A i \in DestructiveRuns :
            execute_openrouter_tool_call(agent.executed[i].tool_call, TOOL_CONFIG, TRUE, "ok").asked

\* with both auto-execute flags false, invoke_agent has returned success
\* after a round in which FILE_MANAGER delete ran and succeeded
C30_DeletedUnasked ==
    /\ ~TOOL_CONFIG.auto_execute_destructive /\ ~TOOL_CONFIG.auto_execute_non_destructive
    /\ agent.pc = "returned" /\ agent.result[1].success
    /\ \E i \in DestructiveRuns :
            /\ agent.executed[i].tool_call = DeleteCall
            /\ agent.executed[i].result.success /\ ~agent.executed[i].result.asked

====
